---- MODULE Spec2Model ----
(***************************************************************************)
(* Model of the batch conversion pipeline of xlsxx:                        *)
(*   ui/download_section.py   job expansion and the batch loop             *)
(*   core/converter.py        engine fallback reader, single-file convert  *)
(*   core/progress_tracker.py per-file progress records                    *)
(*   core/file_handler.py     archive of the converted files               *)
(*   core/utils.py            age-based sweep of the temp root             *)
(*   ui/main_interface.py     batches of one session and their downloads   *)
(*                                                                         *)
(* Text (file names, sheet names, paths) is a sequence of tokens; the      *)
(* tokens ".", "/" and "_" are the characters the code treats specially,   *)
(* every other token stands for a run of ordinary characters.              *)
(* Progress values are kept in tenths (0.1 is 1, 1.0 is 10).               *)
(***************************************************************************)
EXTENDS Integers, Sequences, FiniteSets, TLC

VARIABLES
    file_info_list,     \* validated uploads: [name, path, size, sheets]
    conversion_config,  \* [output_format, mode, specific_sheets]
    file_configs,       \* the expanded jobs
    pc,                 \* position of _execute_batch_conversion
    i,                  \* loop index of the batch loop (1-based)
    results,            \* the batch result dictionary
    progress_tracker,   \* the ProgressTracker object
    disk,               \* path -> content of the files that exist
    zip,                \* the call of zip_converted_files and the ZIP it wrote
    ret,                \* what _execute_batch_conversion returned
    trace,              \* history: start/end events of the jobs
    now,                \* the wall clock read by datetime.now()
    rd,                 \* one call of _read_excel_with_fallback
    gs,                 \* one call of get_excel_sheets
    cv,                 \* one call of convert_single_file
    sw,                 \* one sweep of the temp root (clean_old_files)
    vd,                 \* one call of validate_input_file
    session             \* st.session_state: batches run, zip_path, output_dir

batchVars == <<file_info_list, conversion_config, file_configs, pc, i, results,
               progress_tracker, disk, zip, ret, trace, now, session>>
calls == <<rd, gs, cv, sw, vd>>
vars == <<file_info_list, conversion_config, file_configs, pc, i, results,
          progress_tracker, disk, zip, ret, trace, now, session,
          rd, gs, cv, sw, vd>>

----------------------------------------------------------------------------
(* Bounds *)

MaxFiles == 2
MaxSheets == 2
MaxRows == 3        \* data rows of a sheet
MaxNrows == 3       \* requested row limit

(* The uploads' declared names, the sheet names and the upload timestamps. *)
NamePool == { <<"a", ".", "xls">>, <<"a", ".", "xlsx">>, <<"b", ".", "xls">> }
SheetToks == <<"S1", "S2", "S3", "S4">>
TsToks == <<"t1", "t2", "t3", "t4">>

SheetList(n) == [j \in 1..n |-> <<SheetToks[j]>>]

----------------------------------------------------------------------------
(* Text helpers *)

RECURSIVE rfind(_, _)
rfind(s, c) ==
    IF s = <<>> THEN 0
    ELSE IF s[Len(s)] = c THEN Len(s)
    ELSE rfind(SubSeq(s, 1, Len(s) - 1), c)

basename(p) == SubSeq(p, rfind(p, "/") + 1, Len(p))

stem(n) ==
    LET name == basename(n)
        k == rfind(name, ".")
    IN IF 1 < k /\ k < Len(name) THEN SubSeq(name, 1, k - 1) ELSE name

splitext(n) ==
    LET k == rfind(n, ".")
    IN IF k > rfind(n, "/") + 1 /\ k > 0
       THEN <<SubSeq(n, 1, k - 1), SubSeq(n, k, Len(n))>>
       ELSE <<n, <<>>>>

join(dir, name) ==
    IF name # <<>> /\ name[1] = "/" THEN name ELSE dir \o <<"/">> \o name

temp_dir == <<"temp", "/", "sid">>

UploadPath(name, ts) ==
    join(join(temp_dir, <<"uploads">>),
         splitext(name)[1] \o <<"_", ts>> \o splitext(name)[2])

create_temp_directory(subfolder) ==
    IF subfolder # <<>> THEN join(temp_dir, subfolder) ELSE temp_dir

----------------------------------------------------------------------------
(* Job expansion: DownloadSection._prepare_conversion_configs *)

NoSheet == [has_sheet_name |-> FALSE, sheet_name |-> <<>>]
Pinned(sheet) == [has_sheet_name |-> TRUE, sheet_name |-> sheet]

Config(input_path, output_dir, output_name, output_format, format_config, sel) ==
    [input_path |-> input_path,
     output_path |-> join(output_dir, output_name),
     output_format |-> output_format,
     params |-> [format_config |-> format_config,
                 has_sheet_name |-> sel.has_sheet_name,
                 sheet_name |-> sel.sheet_name]]

(* dict.get(key): the value, or None when the key is absent; a value is    *)
(* truthy when it is neither None nor the empty string.                    *)
HasTruthy(specific_sheets, name) ==
    name \in DOMAIN specific_sheets /\ specific_sheets[name] # <<>>

(* Faulty variant of AllSheetsConfigs: every multi-sheet file is split per *)
(* sheet, whatever the output format.                                      *)
AllSheetsConfigs_AnyFormat(file_info, conversion_config_, output_dir) ==
    LET output_format == conversion_config_.output_format
        format_config == conversion_config_.format_config
        file_name == stem(file_info.name)
        ext == <<".", output_format>>
    IN IF Len(file_info.sheets) > 1
       THEN [j \in 1..Len(file_info.sheets) |->
               Config(file_info.path, output_dir,
                      file_name \o <<"_">> \o file_info.sheets[j] \o ext,
                      output_format, format_config,
                      Pinned(file_info.sheets[j]))]
       ELSE << Config(file_info.path, output_dir, file_name \o ext,
                      output_format, format_config, NoSheet) >>

(* Lines 415-440, mode "all sheets". *)
AllSheetsConfigs(file_info, conversion_config_, output_dir) ==
    LET output_format == conversion_config_.output_format
        format_config == conversion_config_.format_config
        file_name == stem(file_info.name)
        ext == <<".", output_format>>
    IN IF Len(file_info.sheets) > 1 /\ output_format \in {"csv", "pdf"}
       THEN [j \in 1..Len(file_info.sheets) |->
               Config(file_info.path, output_dir,
                      file_name \o <<"_">> \o file_info.sheets[j] \o ext,
                      output_format, format_config,
                      Pinned(file_info.sheets[j]))]
       ELSE << Config(file_info.path, output_dir, file_name \o ext,
                      output_format, format_config, NoSheet) >>

(* Lines 442-452, mode "first sheet only" (an empty sheet list raises,     *)
(* see PrepareRaises).                                                     *)
FirstSheetConfigs(file_info, conversion_config_, output_dir) ==
    LET output_format == conversion_config_.output_format
    IN << Config(file_info.path, output_dir,
                 stem(file_info.name) \o <<".", output_format>>,
                 output_format, conversion_config_.format_config,
                 Pinned(file_info.sheets[1])) >>

(* Faulty variant of SpecificSheetConfigs: a file without a supplied sheet *)
(* is converted whole instead of being skipped.                            *)
SpecificSheetConfigs_NoSkip(file_info, conversion_config_, output_dir) ==
    LET output_format == conversion_config_.output_format
        specific_sheets == conversion_config_.sheet_config.specific_sheets
    IN IF HasTruthy(specific_sheets, file_info.name)
       THEN LET selected_sheet == specific_sheets[file_info.name]
            IN << Config(file_info.path, output_dir,
                         stem(file_info.name) \o <<"_">> \o selected_sheet
                             \o <<".", output_format>>,
                         output_format, conversion_config_.format_config,
                         Pinned(selected_sheet)) >>
       ELSE << Config(file_info.path, output_dir,
                      stem(file_info.name) \o <<".", output_format>>,
                      output_format, conversion_config_.format_config, NoSheet) >>

(* Lines 454-466, mode "specific sheet per file". *)
SpecificSheetConfigs(file_info, conversion_config_, output_dir) ==
    LET output_format == conversion_config_.output_format
        specific_sheets == conversion_config_.sheet_config.specific_sheets
    IN IF HasTruthy(specific_sheets, file_info.name)
       THEN LET selected_sheet == specific_sheets[file_info.name]
            IN << Config(file_info.path, output_dir,
                         stem(file_info.name) \o <<"_">> \o selected_sheet
                             \o <<".", output_format>>,
                         output_format, conversion_config_.format_config,
                         Pinned(selected_sheet)) >>
       ELSE <<>>

(* The configs one file contributes (the body of the loop over the files). *)
ConfigsOfFile(file_info, conversion_config_, output_dir) ==
    LET mode == conversion_config_.sheet_config.mode
    IN IF mode = "all"
       THEN AllSheetsConfigs(file_info, conversion_config_, output_dir)
       ELSE IF mode = "first"
       THEN FirstSheetConfigs(file_info, conversion_config_, output_dir)
       ELSE IF mode = "specific"
       THEN SpecificSheetConfigs(file_info, conversion_config_, output_dir)
       ELSE <<>>

(* file_info['sheets'][0] on an empty list raises IndexError. *)
PrepareRaises(file_info_list_, conversion_config_) ==
    /\ conversion_config_.sheet_config.mode = "first"
    /\ \E k \in 1..Len(file_info_list_) : file_info_list_[k].sheets = <<>>

(* Faulty variant of prepare_conversion_configs: the configs of a later    *)
(* file are put in front of those of the earlier files.                    *)
RECURSIVE prepare_conversion_configs_Prepend(_, _, _)
prepare_conversion_configs_Prepend(file_info_list_, conversion_config_, output_dir) ==
    IF file_info_list_ = <<>> THEN <<>>
    ELSE ConfigsOfFile(file_info_list_[Len(file_info_list_)],
                       conversion_config_, output_dir)
         \o prepare_conversion_configs_Prepend(
                SubSeq(file_info_list_, 1, Len(file_info_list_) - 1),
                conversion_config_, output_dir)

RECURSIVE prepare_conversion_configs(_, _, _)
prepare_conversion_configs(file_info_list_, conversion_config_, output_dir) ==
    IF file_info_list_ = <<>> THEN <<>>
    ELSE prepare_conversion_configs(
             SubSeq(file_info_list_, 1, Len(file_info_list_) - 1),
             conversion_config_, output_dir)
         \o ConfigsOfFile(file_info_list_[Len(file_info_list_)],
                          conversion_config_, output_dir)

----------------------------------------------------------------------------
(* core/progress_tracker.py.  A time of -1 is None; an error_message of    *)
(* <<>> is None.  File indices are 1-based here, 0-based in the code.      *)

FileProgress(file_name, file_size) ==
    [file_name |-> file_name, status |-> "pending", progress |-> 0,
     start_time |-> -1, end_time |-> -1, error_message |-> <<>>,
     file_size |-> file_size]

ProgressTracker(total_files) ==
    [total_files |-> total_files, file_progress |-> <<>>,
     overall_start_time |-> -1, processing_speeds |-> <<>>,
     completed_files |-> 0, failed_files |-> 0,
     total_size |-> 0, processed_size |-> 0]

RECURSIVE SumSizes(_)
SumSizes(fps) ==
    IF fps = <<>> THEN 0
    ELSE fps[Len(fps)].file_size + SumSizes(SubSeq(fps, 1, Len(fps) - 1))

initialize_files(t, file_info_list_) ==
    LET fps == [k \in 1..Len(file_info_list_) |->
                   FileProgress(file_info_list_[k].name, file_info_list_[k].size)]
    IN [t EXCEPT !.file_progress = fps, !.total_size = SumSizes(fps)]

start_processing(t, time) == [t EXCEPT !.overall_start_time = time]

(* Faulty variant of start_file: the record is not selected by the index,  *)
(* every record is (re)started.                                            *)
start_file_All(t, file_index, time) ==
    [t EXCEPT !.file_progress =
        [k \in DOMAIN t.file_progress |->
            [t.file_progress[k] EXCEPT !.status = "active",
                                       !.start_time = time,
                                       !.progress = 0]]]

start_file(t, file_index, time) ==
    IF 1 <= file_index /\ file_index <= Len(t.file_progress)
    THEN [t EXCEPT !.file_progress[file_index].status = "active",
                   !.file_progress[file_index].start_time = time,
                   !.file_progress[file_index].progress = 0]
    ELSE t

Clamp(progress) ==
    IF progress < 0 THEN 0 ELSE IF progress > 10 THEN 10 ELSE progress

update_file_progress(t, file_index, progress) ==
    IF 1 <= file_index /\ file_index <= Len(t.file_progress)
    THEN [t EXCEPT !.file_progress[file_index].progress = Clamp(progress)]
    ELSE t

(* A throughput sample is kept as <<file_size, duration>>. *)
complete_file(t, file_index, success, error_message, time) ==
    IF 1 <= file_index /\ file_index <= Len(t.file_progress)
    THEN LET fp == t.file_progress[file_index]
             duration == time - fp.start_time
         IN IF success
            THEN [t EXCEPT
                    !.file_progress[file_index].end_time = time,
                    !.file_progress[file_index].progress = 10,
                    !.file_progress[file_index].status = "done",
                    !.completed_files = @ + 1,
                    !.processed_size = @ + fp.file_size,
                    !.processing_speeds =
                        IF fp.start_time # -1 /\ fp.file_size > 0 /\ duration > 0
                        THEN Append(@, <<fp.file_size, duration>>) ELSE @]
            ELSE [t EXCEPT
                    !.file_progress[file_index].end_time = time,
                    !.file_progress[file_index].progress = 10,
                    !.file_progress[file_index].status = "failed",
                    !.file_progress[file_index].error_message = error_message,
                    !.failed_files = @ + 1]
    ELSE t

----------------------------------------------------------------------------
(* The file system.  An upload that exists is readable ("ok"), unreadable  *)
(* by every engine ("corrupt"), or converts without leaving an output file *)
(* ("noout": os.path.exists(output_path) is false after the write).  An    *)
(* upload that is missing fails like a corrupt one, so the batch draws its *)
(* uploads from BatchQuality.                                              *)

Quality == {"ok", "corrupt", "noout"}
BatchQuality == {"ok", "noout", "missing"}
Upload(quality) == [kind |-> "upload", quality |-> quality, job |-> 0]
Output(job) == [kind |-> "output", quality |-> "ok", job |-> job]

dirname(p) == SubSeq(p, 1, rfind(p, "/") - 1)

(* Faulty variant of ConvertOutcome: a missing input goes unnoticed.       *)
ConvertOutcome_NoExistCheck(config, disk_, output_dir) ==
    IF config.output_format \notin {"csv", "pdf", "xlsx"} THEN "raise"
    ELSE IF config.input_path \notin DOMAIN disk_ THEN "true"
    ELSE IF disk_[config.input_path].quality = "corrupt" THEN "raise"
    ELSE IF dirname(config.output_path) # output_dir THEN "raise"
    ELSE IF disk_[config.input_path].quality = "noout" THEN "false"
    ELSE "true"

(* FileConverter.convert_single_file as the batch loop sees it: "true",    *)
(* "false", or "raise" (a ConversionError).                                *)
ConvertOutcome(config, disk_, output_dir) ==
    IF config.output_format \notin {"csv", "pdf", "xlsx"} THEN "raise"
    ELSE IF config.input_path \notin DOMAIN disk_ THEN "raise"
    ELSE IF disk_[config.input_path].quality = "corrupt" THEN "raise"
    ELSE IF dirname(config.output_path) # output_dir THEN "raise"
    ELSE IF disk_[config.input_path].quality = "noout" THEN "false"
    ELSE "true"

(* The progress signals of one call: 0.1 on entry, then 1.0 on a normal    *)
(* return or 0.0 before the ConversionError is raised.                     *)
Signals(outcome) == IF outcome = "raise" THEN <<1, 0>> ELSE <<1, 10>>

RECURSIVE Emit(_, _, _)
Emit(t, file_index, signals) ==
    IF signals = <<>> THEN t
    ELSE Emit(update_file_progress(t, file_index, Head(signals)),
              file_index, Tail(signals))

(* FileManager.zip_converted_files: one entry per listed path that exists, *)
(* stored under its base name; None (no ZIP) for an empty list.            *)
RECURSIVE ZipEntries(_, _)
ZipEntries(file_list, disk_) ==
    IF file_list = <<>> THEN <<>>
    ELSE LET rest == ZipEntries(SubSeq(file_list, 1, Len(file_list) - 1), disk_)
             file_path == file_list[Len(file_list)]
         IN IF file_path \in DOMAIN disk_
            THEN Append(rest, [arcname |-> basename(file_path),
                               content |-> disk_[file_path]])
            ELSE rest

NoZip == [called |-> FALSE, zip_path |-> <<>>, entries |-> <<>>]

zip_converted_files(file_list, zip_name, disk_) ==
    IF file_list = <<>>
    THEN [called |-> TRUE, zip_path |-> <<>>, entries |-> <<>>]
    ELSE [called |-> TRUE, zip_path |-> join(temp_dir, zip_name),
          entries |-> ZipEntries(file_list, disk_)]

----------------------------------------------------------------------------
(* Initial states of a batch: 1..MaxFiles validated uploads, each with one *)
(* sheet or MaxSheets sheets (the expansion only tells one sheet from      *)
(* several), present or missing on disk, and a conversion configuration.   *)

FormatConfig(output_format) ==
    IF output_format = "csv" THEN [encoding |-> "UTF-8", separator |-> ","]
    ELSE IF output_format = "pdf" THEN [page_size |-> "A4", orientation |-> "portrait"]
    ELSE [preserve_format |-> TRUE, preserve_formulas |-> FALSE]

FileInfo(name, k, nsheets) ==
    [name |-> name, path |-> UploadPath(name, TsToks[k]),
     size |-> k, sheets |-> SheetList(nsheets)]

ConversionConfig(output_format, mode, specific_sheets) ==
    [output_format |-> output_format,
     format_config |-> FormatConfig(output_format),
     sheet_config |-> [mode |-> mode, specific_sheets |-> specific_sheets]]

NoReturn == [state |-> "running", zip_path |-> <<>>, output_dir |-> <<>>,
             batch_error |-> FALSE]
NoResults == [total |-> 0, success |-> 0, failed |-> 0,
              output_files |-> <<>>, errors |-> <<>>]
NoRead == [pc |-> "idle"]
(* main_interface.py lines 44-48: no archive and no output directory yet. *)
NoSession == [batches |-> 1, zip_path |-> <<>>, output_dir |-> <<>>,
              offered |-> {}]
NoCall == [pc |-> "idle"]
CallsIdle == gs = NoCall /\ cv = NoCall /\ sw = NoCall /\ vd = NoCall

BatchIdle ==
    /\ file_configs = <<>>
    /\ pc = "start"
    /\ i = 0
    /\ results = NoResults
    /\ progress_tracker = ProgressTracker(0)
    /\ zip = NoZip
    /\ ret = NoReturn
    /\ trace = <<>>
    /\ now = 0
    /\ session = NoSession

(* The sheet selections a caller may supply in the batch: a sheet for any  *)
(* subset of the uploaded names.                                           *)
BatchSpecific(names) ==
    UNION { [D -> {<<"S1">>}] : D \in SUBSET {names[k] : k \in DOMAIN names} }

Init ==
    /\ \E n \in 1..MaxFiles :
         \E names \in [1..n -> NamePool], ns \in [1..n -> {1, MaxSheets}],
            q \in [1..n -> BatchQuality] :
            /\ file_info_list = [k \in 1..n |-> FileInfo(names[k], k, ns[k])]
            /\ disk = [p \in {UploadPath(names[k], TsToks[k]) :
                                 k \in {m \in 1..n : q[m] # "missing"}} |->
                          Upload(q[CHOOSE k \in 1..n :
                                     UploadPath(names[k], TsToks[k]) = p])]
            /\ \E output_format \in {"csv", "pdf", "xlsx"} :
                 \/ \E mode \in {"all", "first"} :
                       conversion_config = ConversionConfig(output_format, mode, <<>>)
                 \/ \E sp \in BatchSpecific(names) :
                       conversion_config =
                           ConversionConfig(output_format, "specific", sp)
    /\ BatchIdle
    /\ rd = NoRead
    /\ CallsIdle

----------------------------------------------------------------------------
(* DownloadSection._execute_batch_conversion and the loop of               *)
(* _execute_enhanced_batch_conversion                                      *)

ErrFalse(config) == <<"convert_failed", ": ">> \o basename(config.input_path)
ExcText == <<"file_conversion_failed">>
ErrRaise(config) ==
    <<"processing_error", ": ">> \o basename(config.input_path)
        \o <<": ">> \o ExcText

Event(ev, job) == [ev |-> ev, job |-> job]

(* Lines 283-307 and 352-358: expand the jobs, build the tracker, zero the *)
(* result.  An exception of the expansion is caught at line 336.           *)
Begin ==
    /\ pc = "start"
    /\ LET output_dir == create_temp_directory(<<"converted">>)
       IN IF PrepareRaises(file_info_list, conversion_config)
          THEN /\ ret' = [NoReturn EXCEPT !.state = "none", !.batch_error = TRUE]
               /\ pc' = "done"
               /\ UNCHANGED <<file_configs, progress_tracker, results, i>>
          ELSE LET configs == prepare_conversion_configs(
                                 file_info_list, conversion_config, output_dir)
               IN /\ file_configs' = configs
                  /\ IF configs = <<>>
                     THEN /\ ret' = [NoReturn EXCEPT !.state = "none"]
                          /\ pc' = "done"
                          /\ UNCHANGED <<progress_tracker, results, i>>
                     ELSE /\ progress_tracker' =
                               start_processing(
                                   initialize_files(ProgressTracker(Len(configs)),
                                                    file_info_list), now)
                          /\ results' = [NoResults EXCEPT !.total = Len(configs)]
                          /\ i' = 1
                          /\ pc' = "loop"
                          /\ ret' = ret
    /\ UNCHANGED <<file_info_list, conversion_config, disk, zip, trace, now, session, calls>>

(* Line 363: progress_tracker.start_file(i). *)
StartFile ==
    /\ pc = "loop"
    /\ i <= Len(file_configs)
    /\ progress_tracker' = start_file(progress_tracker, i, now)
    /\ trace' = Append(trace, Event("start", i))
    /\ pc' = "convert"
    /\ UNCHANGED <<file_info_list, conversion_config, file_configs, i, results,
                   disk, zip, ret, now, session, calls>>

(* Faulty variant of Tally: a job that returned false is counted but       *)
(* leaves no error entry.                                                  *)
Tally_NoErrorEntry(results_, config, outcome) ==
    IF outcome = "true"
    THEN [results_ EXCEPT !.success = @ + 1,
                          !.output_files = Append(@, config.output_path)]
    ELSE IF outcome = "false"
    THEN [results_ EXCEPT !.failed = @ + 1]
    ELSE [results_ EXCEPT !.failed = @ + 1,
                          !.errors = Append(@, ErrRaise(config))]

(* Lines 378-391: the tally of one job's outcome. *)
Tally(results_, config, outcome) ==
    IF outcome = "true"
    THEN [results_ EXCEPT !.success = @ + 1,
                          !.output_files = Append(@, config.output_path)]
    ELSE IF outcome = "false"
    THEN [results_ EXCEPT !.failed = @ + 1,
                          !.errors = Append(@, ErrFalse(config))]
    ELSE [results_ EXCEPT !.failed = @ + 1,
                          !.errors = Append(@, ErrRaise(config))]

(* Faulty variant of LoopControl: no inner try/except, a job's exception   *)
(* leaves the loop.                                                        *)
LoopControl_NoCatch(outcome, idx) ==
    IF outcome = "raise"
    THEN [pc |-> "done", i |-> idx, escaped |-> TRUE]
    ELSE [pc |-> "loop", i |-> idx + 1, escaped |-> FALSE]

(* Lines 365 and 388: the inner try/except consumes a job's exception and  *)
(* the for loop moves on to the next job.                                  *)
LoopControl(outcome, idx) == [pc |-> "loop", i |-> idx + 1, escaped |-> FALSE]

(* Lines 365-392: one conversion and the bookkeeping of its outcome; an    *)
(* exception that leaves the loop is caught at lines 394 and 336.          *)
ConvertFile ==
    /\ pc = "convert"
    /\ LET config == file_configs[i]
           output_dir == create_temp_directory(<<"converted">>)
           outcome == ConvertOutcome(config, disk, output_dir)
           emitted == Emit(progress_tracker, i, Signals(outcome))
           ctl == LoopControl(outcome, i)
       IN /\ now' = now + 1
          /\ disk' = IF outcome = "true"
                     THEN (config.output_path :> Output(i)) @@ disk
                     ELSE disk
          /\ pc' = ctl.pc
          /\ i' = ctl.i
          /\ IF ctl.escaped
             THEN /\ ret' = [NoReturn EXCEPT !.state = "none", !.batch_error = TRUE]
                  /\ progress_tracker' = emitted
                  /\ UNCHANGED <<results, trace>>
             ELSE /\ ret' = ret
                  /\ results' = Tally(results, config, outcome)
                  /\ progress_tracker' =
                        complete_file(emitted, i, outcome = "true",
                                      IF outcome = "true" THEN <<>>
                                      ELSE IF outcome = "false" THEN ErrFalse(config)
                                      ELSE ExcText,
                                      now')
                  /\ trace' = Append(trace,
                                     Event(IF outcome = "true" THEN "done" ELSE "failed", i))
    /\ UNCHANGED <<file_info_list, conversion_config, file_configs, zip, session, calls>>

(* Faulty variant of ShouldArchive: archive only if no job failed.         *)
ShouldArchive_NoFailure(results_) == results_.failed = 0

(* Line 317: archive only if some job succeeded. *)
ShouldArchive(results_) == results_.success > 0

(* Lines 314-334: after the loop, archive the outputs if any job succeeded. *)
Finish ==
    /\ pc = "loop"
    /\ i > Len(file_configs)
    /\ IF ShouldArchive(results)
       THEN /\ zip' = zip_converted_files(
                          results.output_files,
                          <<"converted_", conversion_config.output_format,
                            "_files", ".", "zip">>, disk)
            /\ ret' = [NoReturn EXCEPT
                          !.state = "tuple",
                          !.zip_path = zip'.zip_path,
                          !.output_dir = create_temp_directory(<<"converted">>)]
       ELSE /\ ret' = [NoReturn EXCEPT !.state = "none"]
            /\ zip' = zip
    /\ pc' = "done"
    /\ UNCHANGED <<file_info_list, conversion_config, file_configs, i, results,
                   progress_tracker, disk, trace, now, session, calls>>

Next == Begin \/ StartFile \/ ConvertFile \/ Finish

Spec == Init /\ [][Next]_vars

----------------------------------------------------------------------------
(* Job expansion on its own: every list of validated uploads and every     *)
(* configuration, then the expansion step of the batch.  validate_input_   *)
(* file keeps a file valid when its sheet list is empty (line 475 only     *)
(* adds a warning), so a validated upload may carry no sheet name.         *)

ExpandSpecific(names) ==
    UNION { [D -> {<<"S1">>, <<"S2">>}] :
              D \in SUBSET {names[k] : k \in DOMAIN names} }

ExpandInit ==
    /\ \E n \in 1..MaxFiles :
         \E names \in [1..n -> NamePool], ns \in [1..n -> 0..MaxSheets] :
            /\ file_info_list = [k \in 1..n |-> FileInfo(names[k], k, ns[k])]
            /\ disk = [p \in {UploadPath(names[k], TsToks[k]) : k \in 1..n} |->
                          Upload("ok")]
            /\ \E output_format \in {"csv", "pdf", "xlsx"} :
                 \/ \E mode \in {"all", "first"} :
                       conversion_config = ConversionConfig(output_format, mode, <<>>)
                 \/ \E sp \in ExpandSpecific(names) :
                       conversion_config =
                           ConversionConfig(output_format, "specific", sp)
    /\ BatchIdle
    /\ rd = NoRead
    /\ CallsIdle

SpecExpand == ExpandInit /\ [][Begin]_vars

----------------------------------------------------------------------------
(* The engine fallback reader: FileConverter._read_excel_with_fallback.    *)
(*                                                                         *)
(* A workbook is [xlrd_ok, openpyxl_ok, sheets]: whether each engine can   *)
(* open the file, and its sheets [name, nrows] in order, nrows counting    *)
(* every row of the sheet (row 1 is the header row).  A row is named by    *)
(* its index in the sheet.  A row limit of -1 is None.  A table is         *)
(* [engine, sheet, columns, rows]: the sheet read, the index of the row    *)
(* that became the column names (0: none) and the indices of the rows of   *)
(* the frame.                                                              *)

NoSelector == [has_sheet_name |-> FALSE, sheet_name |-> <<>>]
NoTable == [engine |-> "none", sheet |-> <<>>, columns |-> 0, rows |-> <<>>]
NoError == [engine |-> "none", cause |-> "none"]

RangeSeq(a, b) == [j \in 1..(b - a + 1) |-> a + j - 1]
Min(a, b) == IF a < b THEN a ELSE b
SheetNames(book) == {book.sheets[s].name : s \in DOMAIN book.sheets}
SheetNamed(book, name) ==
    book.sheets[CHOOSE s \in DOMAIN book.sheets : book.sheets[s].name = name]

(* Faulty variant of Engines: no fallback engine for the legacy format.    *)
Engines_NoFallback(file_ext) ==
    IF file_ext = ".xlsx" THEN <<"openpyxl">> ELSE <<"xlrd">>

(* Lines 66-69: the candidate engines by file extension. *)
Engines(file_ext) ==
    IF file_ext = ".xlsx" THEN <<"openpyxl">> ELSE <<"xlrd", "openpyxl">>

(* Lines 80-92: xlrd opens the workbook and picks the sheet; a selector    *)
(* naming no sheet of the workbook falls back to the first sheet.          *)
XlrdRaises(book, selector) == ~book.xlrd_ok \/ book.sheets = <<>>

XlrdSheet(book, selector) ==
    IF selector.has_sheet_name /\ selector.sheet_name \in SheetNames(book)
    THEN SheetNamed(book, selector.sheet_name)
    ELSE book.sheets[1]

(* Lines 94-149: read min(nrows, sheet rows) rows, header row included;    *)
(* the first row read names the columns when more than one row was read.   *)
XlrdTable(book, selector, nrows) ==
    LET worksheet == XlrdSheet(book, selector)
        max_rows == IF nrows # -1 /\ nrows # 0 THEN nrows ELSE worksheet.nrows
        actual_rows == Min(max_rows, worksheet.nrows)
        data == RangeSeq(1, actual_rows)
    IN IF data # <<>>
       THEN IF Len(data) > 1
            THEN [engine |-> "xlrd", sheet |-> worksheet.name,
                  columns |-> data[1], rows |-> Tail(data)]
            ELSE [engine |-> "xlrd", sheet |-> worksheet.name,
                  columns |-> 0, rows |-> data]
       ELSE [engine |-> "xlrd", sheet |-> worksheet.name,
             columns |-> 0, rows |-> <<>>]

(* Line 153: pandas.read_excel(engine='openpyxl', sheet_name, nrows).  The *)
(* sheet is index 0 or the named sheet (a name the workbook lacks raises); *)
(* the first row is the header and nrows limits the rows after it.         *)
OpenpyxlRaises(book, selector) ==
    \/ ~book.openpyxl_ok
    \/ book.sheets = <<>>
    \/ selector.has_sheet_name /\ selector.sheet_name \notin SheetNames(book)

OpenpyxlTable(book, selector, nrows) ==
    LET worksheet == IF selector.has_sheet_name
                     THEN SheetNamed(book, selector.sheet_name)
                     ELSE book.sheets[1]
        last == IF nrows = -1 THEN worksheet.nrows
                ELSE Min(worksheet.nrows, nrows + 1)
    IN IF worksheet.nrows = 0
       THEN [engine |-> "openpyxl", sheet |-> worksheet.name,
             columns |-> 0, rows |-> <<>>]
       ELSE [engine |-> "openpyxl", sheet |-> worksheet.name,
             columns |-> 1, rows |-> RangeSeq(2, last)]

EngineRaises(engine, book, selector) ==
    IF engine = "xlrd" THEN XlrdRaises(book, selector)
    ELSE OpenpyxlRaises(book, selector)

EngineTable(engine, book, selector, nrows) ==
    IF engine = "xlrd" THEN XlrdTable(book, selector, nrows)
    ELSE OpenpyxlTable(book, selector, nrows)

EngineError(engine, book, selector) ==
    [engine |-> engine,
     cause |-> IF engine = "xlrd" THEN "xlrd_cannot_open"
               ELSE IF ~book.openpyxl_ok \/ book.sheets = <<>>
               THEN "openpyxl_cannot_open"
               ELSE "worksheet_not_found"]

Book(xlrd_ok, openpyxl_ok, rowcounts) ==
    [xlrd_ok |-> xlrd_ok, openpyxl_ok |-> openpyxl_ok,
     sheets |-> [s \in DOMAIN rowcounts |->
                   [name |-> <<SheetToks[s]>>, nrows |-> rowcounts[s]]]]

Selectors ==
    {NoSelector} \cup {Pinned(<<SheetToks[s]>>) : s \in 1..2} \cup {Pinned(<<"X">>)}

ReadInit ==
    /\ \E file_ext \in {".xlsx", ".xls", ".xlsm"},
          selector \in Selectors,
          nrows \in {-1} \cup 0..MaxNrows,
          xlrd_ok \in BOOLEAN, openpyxl_ok \in BOOLEAN,
          n \in 1..2 :
         \E rowcounts \in [1..n -> 0..(MaxRows + 1)] :
            rd = [pc |-> "call", file_ext |-> file_ext, sheet_name |-> selector,
                  nrows |-> nrows, book |-> Book(xlrd_ok, openpyxl_ok, rowcounts),
                  engines |-> <<>>, idx |-> 0, tried |-> <<>>,
                  last_error |-> NoError, warnings |-> <<>>,
                  result |-> NoTable]
    /\ file_info_list = <<>>
    /\ conversion_config = ConversionConfig("csv", "all", <<>>)
    /\ disk = <<>>
    /\ BatchIdle
    /\ CallsIdle

(* Lines 53-71: choose the engines, no error yet. *)
ReadBegin ==
    /\ rd.pc = "call"
    /\ rd' = [rd EXCEPT !.pc = "loop", !.engines = Engines(rd.file_ext),
                        !.idx = 1, !.last_error = NoError]
    /\ UNCHANGED <<batchVars, gs, cv, sw, vd>>

(* Lines 73-172: one iteration of the loop over the engines: return the    *)
(* table, or keep the error, warn and go on with the next engine.          *)
TryEngine ==
    /\ rd.pc = "loop"
    /\ rd.idx <= Len(rd.engines)
    /\ LET engine == rd.engines[rd.idx]
       IN IF EngineRaises(engine, rd.book, rd.sheet_name)
          THEN rd' = [rd EXCEPT
                        !.tried = Append(@, engine),
                        !.last_error = EngineError(engine, rd.book, rd.sheet_name),
                        !.warnings = Append(@, engine),
                        !.idx = @ + 1]
          ELSE rd' = [rd EXCEPT
                        !.tried = Append(@, engine),
                        !.result = EngineTable(engine, rd.book, rd.sheet_name,
                                               rd.nrows),
                        !.pc = "returned"]
    /\ UNCHANGED <<batchVars, gs, cv, sw, vd>>

(* Lines 174-178: every engine failed, raise ConversionError. *)
ReadFail ==
    /\ rd.pc = "loop"
    /\ rd.idx > Len(rd.engines)
    /\ rd' = [rd EXCEPT !.pc = "raised"]
    /\ UNCHANGED <<batchVars, gs, cv, sw, vd>>

ReadNext == ReadBegin \/ TryEngine \/ ReadFail

SpecRead == ReadInit /\ [][ReadNext]_vars

----------------------------------------------------------------------------
(* Properties of the batch run *)

Jobs == 1..Len(file_configs)
IsStart(e) == e.ev = "start"
IsDone(e) == e.ev = "done"
IsFailed(e) == e.ev = "failed"
Starts(j) == Cardinality({m \in DOMAIN trace : trace[m] = Event("start", j)})
Ends(j) == Cardinality({m \in DOMAIN trace :
                          trace[m].job = j /\ trace[m].ev \in {"done", "failed"}})
DoneJobs == SelectSeq(trace, IsDone)
FailedJobs == SelectSeq(trace, IsFailed)
BatchRan == pc = "done" /\ file_configs # <<>>

(* The text `part` occurs in the text `msg`. *)
Mentions(msg, part) ==
    \E a \in 1..Len(msg) : \E b \in a..Len(msg) : SubSeq(msg, a, b) = part

\* C1: a failing job (its conversion raises or returns false) never aborts
\* the batch: no job is started twice, and when the batch has ended every job
\* was started and ended exactly once and no exception left the batch loop.
C1_FailureNeverAborts ==
    /\ \A j \in Jobs : Starts(j) <= 1 /\ Ends(j) <= Starts(j)
    /\ BatchRan => /\ ~ret.batch_error
                   /\ \A j \in Jobs : Starts(j) = 1 /\ Ends(j) = 1

C1_Witness ==
    /\ BatchRan
    /\ Len(file_configs) >= 3
    /\ trace[2] = Event("failed", 1)
    /\ results.errors[1][1] = "processing_error"
    /\ trace[Len(trace)] = Event("done", Len(file_configs))

C2_Tally ==
    /\ results.success = Len(DoneJobs)
    /\ results.failed = Len(FailedJobs)
    /\ Len(results.errors) = results.failed
    /\ Len(results.output_files) = results.success
    /\ \A k \in 1..Len(FailedJobs) :
          k <= Len(results.errors) =>
            Mentions(results.errors[k],
                     basename(file_configs[FailedJobs[k].job].input_path))
    /\ \A k \in 1..Len(DoneJobs) :
          k <= Len(results.output_files) =>
            results.output_files[k] = file_configs[DoneJobs[k].job].output_path
    /\ pc \in {"loop", "convert"} => results.total = Len(file_configs)
    /\ BatchRan => /\ results.total = Len(file_configs)
                   /\ results.success + results.failed = results.total

C2_Grows ==
    /\ results'.total >= results.total
    /\ results'.success >= results.success
    /\ results'.failed >= results.failed
    /\ Len(results'.errors) >= Len(results.errors)
    /\ Len(results'.output_files) >= Len(results.output_files)

\* C2: the batch result has total = number of jobs, success + failed = total,
\* one errors entry per failed job naming that job's input file and one
\* output_files path per successful job, both in job order; the counters
\* and lists never shrink during the run.
C2_ResultAccounting == [](C2_Tally) /\ [][C2_Grows]_vars

C2_Witness ==
    /\ BatchRan
    /\ results.total = 3 /\ results.success = 2 /\ results.failed = 1
    /\ \E j \in Jobs : /\ Ends(j) = 1
                        /\ Event("failed", j) = trace[2 * j]
                        /\ file_configs[j].input_path \notin DOMAIN disk

\* C3: after a batch with k >= 1 successful jobs the archive holds exactly k
\* files in a flat namespace, one per successful job (that job's output
\* under the base name of its output path).
C3_ArchiveOnePerSuccess ==
    (BatchRan /\ results.success >= 1) =>
        /\ Len(zip.entries) = results.success
        /\ \A m \in DOMAIN zip.entries : ~Mentions(zip.entries[m].arcname, <<"/">>)
        /\ \A k \in 1..Len(DoneJobs) :
              \E m \in DOMAIN zip.entries :
                 /\ zip.entries[m].content = Output(DoneJobs[k].job)
                 /\ zip.entries[m].arcname =
                       basename(file_configs[DoneJobs[k].job].output_path)

\* C4: archival is requested exactly when the batch has ended with at least
\* one successful job, never before all jobs have ended; a batch without a
\* success returns no archive, a batch with successes (and possibly
\* failures) returns the archive of its successful outputs.
C4_ArchiveIffSuccess ==
    /\ zip.called => /\ pc = "done"
                     /\ results.success > 0
                     /\ \A j \in Jobs : Ends(j) = 1
    /\ BatchRan => (zip.called <=> results.success > 0)
    /\ (pc = "done" /\ results.success = 0) =>
          /\ ret.state = "none"
          /\ zip = NoZip
    /\ (pc = "done" /\ results.success > 0) =>
          /\ ret.state = "tuple"
          /\ ret.zip_path = zip.zip_path
          /\ zip.zip_path # <<>>
          /\ {zip.entries[m].arcname : m \in DOMAIN zip.entries}
               = {basename(results.output_files[k]) :
                     k \in DOMAIN results.output_files}

C4_Witness ==
    /\ pc = "done"
    /\ results.success > 0
    /\ results.failed > 0
    /\ zip.called
    /\ ret.state = "tuple"

FileIdx(config) ==
    CHOOSE k \in DOMAIN file_info_list : file_info_list[k].path = config.input_path
SheetPos(config) ==
    CHOOSE s \in DOMAIN file_info_list[FileIdx(config)].sheets :
        file_info_list[FileIdx(config)].sheets[s] = config.params.sheet_name
Active == {j \in Jobs : Starts(j) > Ends(j)}

\* C5: jobs run one at a time in expansion order: the events of the run are
\* start 1, end 1, start 2, end 2, ... (job j+1 starts only after job j is
\* done or failed), at most one job is active, and the jobs are listed in
\* file order, then sheet order within a file.
C5_Sequential ==
    /\ \A m \in DOMAIN trace :
          /\ trace[m].job = (m + 1) \div 2
          /\ (m % 2 = 1) => trace[m].ev = "start"
          /\ (m % 2 = 0) => trace[m].ev \in {"done", "failed"}
    /\ Cardinality(Active) <= 1
    /\ \A a, b \in Jobs :
          a < b =>
            \/ FileIdx(file_configs[a]) < FileIdx(file_configs[b])
            \/ /\ FileIdx(file_configs[a]) = FileIdx(file_configs[b])
               /\ file_configs[a].params.has_sheet_name
               /\ file_configs[b].params.has_sheet_name
               /\ SheetPos(file_configs[a]) < SheetPos(file_configs[b])

C5_Witness ==
    /\ BatchRan
    /\ Len(file_configs) >= 3
    /\ FileIdx(file_configs[1]) = FileIdx(file_configs[2])
    /\ FileIdx(file_configs[2]) < FileIdx(file_configs[3])
    /\ Len(trace) = 2 * Len(file_configs)

----------------------------------------------------------------------------
(* Properties of the job expansion *)

Mode == conversion_config.sheet_config.mode
Fmt == conversion_config.output_format
OutputDir == <<"temp", "/", "sid", "/", "converted">>
Expanded == pc # "start"
Files == DOMAIN file_info_list

(* The jobs that read the k-th upload, in job order. *)
JobsOfFile(k) ==
    LET OfFile(config) == config.input_path = file_info_list[k].path
    IN SelectSeq(file_configs, OfFile)

(* st is the declared name without its extension. *)
IsStemOf(st, name) == \E e \in {"xls", "xlsx"} : name = st \o <<".", e>>

(* The config is named {stem}.{ext} inside the output directory. *)
NamedStem(config, k) ==
    \E st \in {<<"a">>, <<"b">>} :
       /\ IsStemOf(st, file_info_list[k].name)
       /\ config.output_path = OutputDir \o <<"/">> \o st \o <<".", Fmt>>

(* The config is named {stem}_{sheet}.{ext} inside the output directory. *)
NamedStemSheet(config, k, sheet) ==
    \E st \in {<<"a">>, <<"b">>} :
       /\ IsStemOf(st, file_info_list[k].name)
       /\ config.output_path =
             OutputDir \o <<"/">> \o st \o <<"_">> \o sheet \o <<".", Fmt>>

\* C6: under the "all sheets" policy a file with more than one sheet and a
\* csv or pdf target yields one job per sheet, in sheet order, each named
\* {stem}_{sheet}.{ext} and pinned to that sheet; any other file yields
\* exactly one job, named {stem}.{ext}.
C6_AllSheetsExpansion ==
    (Expanded /\ Mode = "all") =>
      /\ ~ret.batch_error
      /\ \A k \in Files :
           LET sheets == file_info_list[k].sheets
               jobs == JobsOfFile(k)
           IN IF Fmt \in {"csv", "pdf"} /\ Len(sheets) > 1
              THEN /\ Len(jobs) = Len(sheets)
                   /\ \A j \in DOMAIN jobs :
                        /\ jobs[j].params.has_sheet_name
                        /\ jobs[j].params.sheet_name = sheets[j]
                        /\ jobs[j].output_format = Fmt
                        /\ NamedStemSheet(jobs[j], k, sheets[j])
              ELSE /\ Len(jobs) = 1
                   /\ jobs[1].output_format = Fmt
                   /\ NamedStem(jobs[1], k)

C6_Witness ==
    /\ Expanded /\ Mode = "all" /\ Fmt = "pdf"
    /\ Len(file_info_list) = 2
    /\ Len(file_info_list[1].sheets) = 2
    /\ Len(file_info_list[2].sheets) = 1
    /\ Len(file_configs) = 3

Supplied(k) ==
    file_info_list[k].name \in DOMAIN conversion_config.sheet_config.specific_sheets

\* C8: under the "specific sheet per file" policy every file with a supplied
\* sheet name yields exactly one job, pinned to that sheet, and a file
\* without one yields no job and no error; the number of jobs is the number
\* of files with a supplied sheet.
C8_SpecificSheetExpansion ==
    (Expanded /\ Mode = "specific") =>
      /\ ~ret.batch_error
      /\ Len(file_configs) = Cardinality({k \in Files : Supplied(k)})
      /\ \A k \in Files :
           IF Supplied(k)
           THEN /\ Len(JobsOfFile(k)) = 1
                /\ JobsOfFile(k)[1].params.has_sheet_name
                /\ JobsOfFile(k)[1].params.sheet_name =
                      conversion_config.sheet_config.specific_sheets[
                          file_info_list[k].name]
           ELSE JobsOfFile(k) = <<>>

C8_Witness ==
    /\ Expanded /\ Mode = "specific"
    /\ Len(file_info_list) = 2
    /\ ~Supplied(1) /\ Supplied(2)
    /\ Len(file_configs) = 1
    /\ file_configs[1].input_path = file_info_list[2].path
    /\ pc = "loop"

----------------------------------------------------------------------------
(* Properties of the reader *)

Candidates ==
    IF rd.file_ext = ".xlsx" THEN <<"openpyxl">> ELSE <<"xlrd", "openpyxl">>
Fails(engine) == EngineRaises(engine, rd.book, rd.sheet_name)
ReadRunning == rd.pc \in {"loop", "returned", "raised"}

\* C9: the reader tries its candidate engines in order (openpyxl alone for
\* .xlsx; xlrd then openpyxl for any other extension) and returns the table
\* of the first one that succeeds; it raises only when every candidate
\* raised, and never when some candidate succeeds.
C9_FirstEngineThatSucceeds ==
    ReadRunning =>
      /\ rd.engines = Candidates
      /\ rd.tried = SubSeq(Candidates, 1, Len(rd.tried))
      /\ rd.pc = "returned" =>
            /\ rd.result.engine = rd.tried[Len(rd.tried)]
            /\ ~Fails(rd.result.engine)
            /\ \A m \in 1..(Len(rd.tried) - 1) : Fails(rd.tried[m])
            /\ rd.result =
                  EngineTable(rd.result.engine, rd.book, rd.sheet_name, rd.nrows)
      /\ rd.pc = "raised" =>
            /\ rd.tried = Candidates
            /\ \A m \in DOMAIN Candidates : Fails(Candidates[m])
            /\ rd.last_error.engine = Candidates[Len(Candidates)]
            /\ rd.result = NoTable

C9_Witness ==
    /\ rd.pc = "returned"
    /\ rd.file_ext = ".xls"
    /\ rd.tried = <<"xlrd", "openpyxl">>
    /\ rd.result.engine = "openpyxl"
    /\ rd.last_error.engine = "xlrd"

\* C10: for a sheet with a header row and N data rows and a row limit
\* k >= 1 the reader returns exactly min(k, N) data rows, the header row
\* naming the columns and not being counted, whichever engine read it.
C10_RowLimit ==
    LET worksheet == SheetNamed(rd.book, rd.result.sheet)
        N == worksheet.nrows - 1
    IN (rd.pc = "returned" /\ rd.nrows >= 1 /\ worksheet.nrows >= 1) =>
          rd.result.rows = RangeSeq(2, Min(rd.nrows, N) + 1)

(* The selector names a sheet the workbook does not have. *)
StaleSelector ==
    /\ rd.sheet_name.has_sheet_name
    /\ rd.sheet_name.sheet_name \notin SheetNames(rd.book)

(* Some candidate engine reads the file when no sheet is named. *)
ReadableByDefault ==
    \E m \in DOMAIN Candidates : ~EngineRaises(Candidates[m], rd.book, NoSelector)

\* C11: a read whose selector names a sheet that the file does not have
\* does not fail: whenever the file is readable at all, the read returns the
\* table of the first sheet, for both extensions and every engine.
C11_MissingSheetFallsBack ==
    (rd.pc \in {"returned", "raised"} /\ StaleSelector /\ ReadableByDefault) =>
        /\ rd.pc = "returned"
        /\ rd.result.sheet = rd.book.sheets[1].name

----------------------------------------------------------------------------
(* Sheet enumeration: FileConverter.get_excel_sheets.  The workbook is a   *)
(* Book as above, here with any number of sheets, none included.           *)

(* Lines 364-367: the candidate engines by file extension. *)
SheetEngines(file_ext) ==
    IF file_ext = ".xlsx" THEN <<"openpyxl">> ELSE <<"xlrd", "openpyxl">>

(* Lines 375 and 394: opening the workbook is all that can raise. *)
SheetsRaises(engine, book) ==
    IF engine = "xlrd" THEN ~book.xlrd_ok ELSE ~book.openpyxl_ok

(* Lines 378-391 and 395: the sheet names, in workbook order. *)
SheetNamesOf(engine, book) == [s \in DOMAIN book.sheets |-> book.sheets[s].name]

(* Faulty variant of DefaultSheets: no placeholder name. *)
DefaultSheets_Empty == <<>>

(* Line 402: the placeholder list returned when every engine raised. *)
DefaultSheets == << <<"Sheet1">> >>

SheetsInit ==
    /\ \E file_ext \in {".xlsx", ".xls", ".xlsm"},
          xlrd_ok \in BOOLEAN, openpyxl_ok \in BOOLEAN,
          n \in 0..MaxSheets :
         \E rowcounts \in [1..n -> 0..MaxRows] :
            gs = [pc |-> "call", file_ext |-> file_ext,
                  book |-> Book(xlrd_ok, openpyxl_ok, rowcounts),
                  engines |-> <<>>, idx |-> 0, tried |-> <<>>,
                  warned |-> FALSE, result |-> <<>>]
    /\ file_info_list = <<>>
    /\ conversion_config = ConversionConfig("csv", "all", <<>>)
    /\ disk = <<>>
    /\ BatchIdle
    /\ rd = NoRead /\ cv = NoCall /\ sw = NoCall /\ vd = NoCall

(* Lines 361-367: choose the engines. *)
SheetsBegin ==
    /\ gs.pc = "call"
    /\ gs' = [gs EXCEPT !.pc = "loop", !.engines = SheetEngines(gs.file_ext),
                        !.idx = 1]
    /\ UNCHANGED <<batchVars, rd, cv, sw, vd>>

(* Lines 369-398: one iteration of the loop over the engines: return the   *)
(* names, or swallow the exception and go on with the next engine.         *)
SheetsTry ==
    /\ gs.pc = "loop"
    /\ gs.idx <= Len(gs.engines)
    /\ LET engine == gs.engines[gs.idx]
       IN IF SheetsRaises(engine, gs.book)
          THEN gs' = [gs EXCEPT !.tried = Append(@, engine), !.idx = @ + 1]
          ELSE gs' = [gs EXCEPT !.tried = Append(@, engine),
                                !.result = SheetNamesOf(engine, gs.book),
                                !.pc = "returned"]
    /\ UNCHANGED <<batchVars, rd, cv, sw, vd>>

(* Lines 400-402: every engine raised: warn and return the placeholder. *)
SheetsFallback ==
    /\ gs.pc = "loop"
    /\ gs.idx > Len(gs.engines)
    /\ gs' = [gs EXCEPT !.warned = TRUE, !.result = DefaultSheets,
                        !.pc = "returned"]
    /\ UNCHANGED <<batchVars, rd, cv, sw, vd>>

SheetsNext == SheetsBegin \/ SheetsTry \/ SheetsFallback

SpecSheets == SheetsInit /\ [][SheetsNext]_vars

(* The engines the reader would try for this file. *)
ReaderOrder == Engines(gs.file_ext)
CannotList(engine) == SheetsRaises(engine, gs.book)

\* C12: sheet enumeration never fails: it tries the reader's engine order,
\* returns the names given by the first engine that succeeds, and when
\* every engine raises it returns a list of exactly one placeholder name.
C12_SheetEnumerationNeverFails ==
    /\ gs.pc \in {"call", "loop", "returned"}
    /\ gs.pc \in {"loop", "returned"} =>
          /\ gs.engines = ReaderOrder
          /\ gs.tried = SubSeq(ReaderOrder, 1, Len(gs.tried))
    /\ gs.pc = "returned" =>
          IF \E m \in DOMAIN ReaderOrder : ~CannotList(ReaderOrder[m])
          THEN LET first == CHOOSE m \in DOMAIN ReaderOrder :
                               /\ ~CannotList(ReaderOrder[m])
                               /\ \A k \in 1..(m - 1) : CannotList(ReaderOrder[k])
               IN /\ gs.tried = SubSeq(ReaderOrder, 1, first)
                  /\ gs.result = SheetNamesOf(ReaderOrder[first], gs.book)
                  /\ ~gs.warned
          ELSE /\ gs.tried = ReaderOrder
               /\ Len(gs.result) = 1
               /\ gs.result[1] = <<"Sheet1">>

C12_Witness ==
    /\ gs.pc = "returned"
    /\ gs.file_ext = ".xls"
    /\ gs.tried = <<"xlrd", "openpyxl">>
    /\ gs.warned
    /\ gs.result = << <<"Sheet1">> >>

----------------------------------------------------------------------------
(* One call of FileConverter.convert_single_file, step by step.  The       *)
(* progress observer records the signals it is given; cv.files is the file *)
(* system the call sees, cv.invoked the renderers the call entered, and an *)
(* exception is the text of its message.                                   *)

FormatTags == {"csv", "pdf", "xlsx", "docx", "CSV"}

(* Lines 525-526: progress_callback(0.1) on entry. *)
OnEntry(signals, has_callback) ==
    IF has_callback THEN Append(signals, 1) ELSE signals

(* Lines 549-550: progress_callback(1.0) after the renderer returned. *)
OnSuccess(signals, has_callback) ==
    IF has_callback THEN Append(signals, 10) ELSE signals

(* Faulty variant of OnFailure: the handler re-raises without a signal. *)
OnFailure_NoReset(signals, has_callback) == signals

(* Lines 555-556: progress_callback(0.0) in the exception handler. *)
OnFailure(signals, has_callback) ==
    IF has_callback THEN Append(signals, 0) ELSE signals

(* Faulty variant of Renderer: an unknown tag is rendered as csv. *)
Renderer_DefaultCsv(output_format) ==
    IF output_format = "csv" THEN "convert_to_csv"
    ELSE IF output_format = "pdf" THEN "convert_to_pdf"
    ELSE IF output_format = "xlsx" THEN "convert_to_xlsx"
    ELSE "convert_to_csv"

(* Lines 528-547: the renderer of a format tag; "none" for any other tag. *)
Renderer(output_format) ==
    IF output_format = "csv" THEN "convert_to_csv"
    ELSE IF output_format = "pdf" THEN "convert_to_pdf"
    ELSE IF output_format = "xlsx" THEN "convert_to_xlsx"
    ELSE "none"

(* convert_to_csv / convert_to_pdf / convert_to_xlsx: read the input, write *)
(* the output, return os.path.exists(output_path); any exception becomes a *)
(* ConversionError.                                                        *)
RenderOutcome(input_path, files) ==
    IF input_path \notin DOMAIN files THEN "raise"
    ELSE IF files[input_path].quality = "corrupt" THEN "raise"
    ELSE IF files[input_path].quality = "noout" THEN "false"
    ELSE "true"

RenderError(renderer) == <<renderer, "_failed", ": ", "cannot_read">>
UnsupportedFormat(output_format) ==
    <<"unsupported_output_format", ": ", output_format>>
ConversionFailed(e) == <<"file_conversion_failed", ": ">> \o e

(* settings.py line 32: the encodings the configuration offers. *)
CSV_ENCODINGS == {"UTF-8", "GBK", "ISO-8859-1"}

(* Line 531: params.get('encoding', 'utf-8'); "none" is an absent key. *)
ParamEncoding(encoding) == IF encoding = "none" THEN "utf-8" ELSE encoding

(* Lines 211-212 of convert_to_csv: the encoding the file is written with. *)
CsvEncoding(encoding) == IF encoding = "utf-8" THEN "utf-8-sig" ELSE encoding

CvInput == UploadPath(<<"a", ".", "xls">>, "t1")
CvOutput(output_format) ==
    join(create_temp_directory(<<"converted">>), <<"a", ".", output_format>>)

ConvertInit ==
    /\ \E output_format \in FormatTags, has_callback \in BOOLEAN,
          sel \in {NoSheet, Pinned(<<"S1">>)},
          q \in Quality \cup {"missing"},
          encoding \in CSV_ENCODINGS \cup {"utf-8", "none"} :
         cv = [pc |-> "enter",
               encoding |-> encoding, written_encoding |-> "none",
               input_path |-> CvInput,
               output_path |-> CvOutput(output_format),
               output_format |-> output_format,
               params |-> sel,
               has_callback |-> has_callback,
               files |-> IF q = "missing" THEN <<>> ELSE CvInput :> Upload(q),
               signals |-> <<>>, invoked |-> <<>>,
               success |-> "none", exc |-> <<>>]
    /\ file_info_list = <<>>
    /\ conversion_config = ConversionConfig("csv", "all", <<>>)
    /\ disk = <<>>
    /\ BatchIdle
    /\ rd = NoRead /\ gs = NoCall /\ sw = NoCall /\ vd = NoCall

(* Lines 524-526: enter the try block and signal 0.1. *)
CvEnter ==
    /\ cv.pc = "enter"
    /\ cv' = [cv EXCEPT !.pc = "dispatch",
                        !.signals = OnEntry(@, cv.has_callback)]
    /\ UNCHANGED <<batchVars, rd, gs, sw, vd>>

(* Lines 528-547: dispatch on the format tag and run the renderer. *)
CvDispatch ==
    /\ cv.pc = "dispatch"
    /\ LET renderer == Renderer(cv.output_format)
           outcome == RenderOutcome(cv.input_path, cv.files)
       IN IF renderer = "none"
          THEN cv' = [cv EXCEPT !.pc = "handler",
                                !.exc = UnsupportedFormat(cv.output_format)]
          ELSE IF outcome = "raise"
          THEN cv' = [cv EXCEPT !.pc = "handler",
                                !.invoked = Append(@, renderer),
                                !.exc = RenderError(renderer)]
          ELSE cv' = [cv EXCEPT
                        !.pc = "rendered",
                        !.invoked = Append(@, renderer),
                        !.success = outcome,
                        !.written_encoding =
                            IF outcome = "true" /\ renderer = "convert_to_csv"
                            THEN CsvEncoding(ParamEncoding(cv.encoding))
                            ELSE @,
                        !.files = IF outcome = "true"
                                  THEN (cv.output_path :> Output(1)) @@ @
                                  ELSE @]
    /\ UNCHANGED <<batchVars, rd, gs, sw, vd>>

(* Lines 549-550: signal 1.0. *)
CvSignalDone ==
    /\ cv.pc = "rendered"
    /\ cv' = [cv EXCEPT !.pc = "returning",
                        !.signals = OnSuccess(@, cv.has_callback)]
    /\ UNCHANGED <<batchVars, rd, gs, sw, vd>>

(* Line 552: return success. *)
CvReturn ==
    /\ cv.pc = "returning"
    /\ cv' = [cv EXCEPT !.pc = "returned"]
    /\ UNCHANGED <<batchVars, rd, gs, sw, vd>>

(* Lines 554-556: the handler signals 0.0. *)
CvSignalReset ==
    /\ cv.pc = "handler"
    /\ cv' = [cv EXCEPT !.pc = "raising",
                        !.signals = OnFailure(@, cv.has_callback)]
    /\ UNCHANGED <<batchVars, rd, gs, sw, vd>>

(* Line 557: the ConversionError reaches the caller. *)
CvRaise ==
    /\ cv.pc = "raising"
    /\ cv' = [cv EXCEPT !.pc = "raised", !.exc = ConversionFailed(@)]
    /\ UNCHANGED <<batchVars, rd, gs, sw, vd>>

ConvertNext ==
    CvEnter \/ CvDispatch \/ CvSignalDone \/ CvReturn \/ CvSignalReset \/ CvRaise

SpecConvert == ConvertInit /\ [][ConvertNext]_vars

(* The signal s was emitted. *)
Emitted(s) == \E m \in DOMAIN cv.signals : cv.signals[m] = s

\* C13: with a progress observer attached every call of the single-file
\* converter emits 0.1 first; a call that returns has emitted 1.0 as its
\* last signal; a call that fails has emitted 0.0 as its last signal before
\* the ConversionError reaches the caller; no call emits both 1.0 and 0.0.
C13_ProgressSignals ==
    cv.pc # "idle" /\ cv.has_callback =>
      /\ cv.pc # "enter" => cv.signals # <<>> /\ cv.signals[1] = 1
      /\ cv.pc \in {"returning", "returned"} => cv.signals = <<1, 10>>
      /\ cv.pc \in {"raising", "raised"} => cv.signals = <<1, 0>>
      /\ ~(Emitted(10) /\ Emitted(0))

C13_Witness ==
    /\ cv.pc = "raised"
    /\ cv.has_callback
    /\ cv.invoked = <<"convert_to_pdf">>
    /\ cv.signals = <<1, 0>>

\* C14: a conversion whose format tag is not csv, pdf or xlsx fails with a
\* ConversionError whose message names the tag; no renderer (hence no
\* reader) is invoked and no output file is written.
C14_BadFormatTag ==
    (cv.pc # "idle" /\ cv.output_format \notin {"csv", "pdf", "xlsx"}) =>
      /\ cv.invoked = <<>>
      /\ cv.output_path \notin DOMAIN cv.files
      /\ cv.pc \notin {"rendered", "returning", "returned"}
      /\ cv.pc \in {"handler", "raising", "raised"} =>
            Mentions(cv.exc, <<cv.output_format>>)

C14_Witness ==
    /\ cv.pc = "raised"
    /\ cv.output_format = "docx"
    /\ cv.exc = <<"file_conversion_failed", ": ",
                  "unsupported_output_format", ": ", "docx">>

----------------------------------------------------------------------------
(* Properties of the progress tracker during the batch run *)

Records == progress_tracker.file_progress
Finished(fp) == fp.status \in {"done", "failed"}

C15_Statuses ==
    \A k \in DOMAIN Records :
       /\ Records[k].status \in {"pending", "active", "done", "failed"}
       /\ Records[k].status # "pending" => Records[k].start_time # -1
       /\ Finished(Records[k]) => Records[k].end_time # -1

C15_Step ==
    \A k \in DOMAIN Records :
       /\ k \in DOMAIN progress_tracker'.file_progress
       /\ LET before == Records[k]
              after == progress_tracker'.file_progress[k]
          IN /\ Finished(before) => after = before
             /\ before.status = "pending" => after.status \in {"pending", "active"}
             /\ before.status = "active" =>
                   after.status \in {"active", "done", "failed"}

C16_OneRecordPerJob ==
    (pc \in {"loop", "convert", "done"} /\ file_configs # <<>>) =>
      /\ Len(Records) = Len(file_configs)
      /\ \A j \in Jobs :
           /\ j \in DOMAIN Records
           /\ Records[j].file_name = file_info_list[FileIdx(file_configs[j])].name
           /\ Ends(j) = 1 =>
                 Records[j].status =
                    (IF \E m \in DOMAIN trace : trace[m] = Event("done", j)
                     THEN "done" ELSE "failed")

----------------------------------------------------------------------------
(* The batch run while uploads are being deleted under it: an age-based    *)
(* sweep (clean_old_files, os.remove) or the cleanup of the session        *)
(* (cleanup_temp_files) removes an upload after the jobs were expanded.    *)

MaxVanish == 1

Uploads == {file_info_list[k].path : k \in DOMAIN file_info_list}
Vanished == Uploads \ DOMAIN disk

RaceInit ==
    /\ \E n \in 1..MaxFiles :
         \E names \in [1..n -> NamePool], ns \in [1..n -> {1, MaxSheets}],
            q \in [1..n -> {"ok", "noout"}] :
            /\ file_info_list = [k \in 1..n |-> FileInfo(names[k], k, ns[k])]
            /\ disk = [p \in {UploadPath(names[k], TsToks[k]) : k \in 1..n} |->
                          Upload(q[CHOOSE k \in 1..n :
                                     UploadPath(names[k], TsToks[k]) = p])]
            /\ \E output_format \in {"csv", "xlsx"}, mode \in {"all", "first"} :
                  conversion_config = ConversionConfig(output_format, mode, <<>>)
    /\ BatchIdle
    /\ rd = NoRead
    /\ CallsIdle

(* utils.py line 90 (os.remove) or file_handler.py line 114 (rmtree), run  *)
(* by another thread of control between two steps of the batch.            *)
Vanish ==
    /\ pc \in {"loop", "convert"}
    /\ Cardinality(Vanished) < MaxVanish
    /\ \E p \in Uploads \cap DOMAIN disk :
          disk' = [x \in DOMAIN disk \ {p} |-> disk[x]]
    /\ UNCHANGED <<file_info_list, conversion_config, file_configs, pc, i,
                   results, progress_tracker, zip, ret, trace, now, session, calls>>

RaceNext == Begin \/ StartFile \/ ConvertFile \/ Finish \/ Vanish

SpecRace == RaceInit /\ [][RaceNext]_vars

C17_NoAbort ==
    /\ ~ret.batch_error
    /\ \A j \in Jobs : Ends(j) <= 1
    /\ BatchRan => /\ \A j \in Jobs : Starts(j) = 1 /\ Ends(j) = 1
                   /\ ret.state \in {"none", "tuple"}
    /\ Len(results.errors) = results.failed

(* The step that converts a job whose input is gone at that moment. *)
C17_Step ==
    (pc = "convert" /\ pc' # "convert"
        /\ file_configs[i].input_path \notin DOMAIN disk) =>
      /\ results'.failed = results.failed + 1
      /\ results'.success = results.success
      /\ Len(results'.errors) = Len(results.errors) + 1
      /\ Mentions(results'.errors[Len(results'.errors)],
                  basename(file_configs[i].input_path))
      /\ trace' = Append(trace, Event("failed", i))
      /\ pc' = "loop" /\ i' = i + 1
      /\ ~ret'.batch_error

\* C17: when a job's input file is deleted after the expansion, before or
\* while the job runs, that job is recorded as an ordinary failed job with
\* an error entry naming it, the batch goes on with the remaining jobs, and
\* no exception leaves the batch.
C17_VanishedInputIsOrdinaryFailure == [](C17_NoAbort) /\ [][C17_Step]_vars

C17_Witness ==
    /\ BatchRan
    /\ Len(file_configs) >= 2
    /\ file_configs[1].input_path \in Vanished
    /\ trace[2] = Event("failed", 1)
    /\ trace[Len(trace)] = Event("done", Len(file_configs))
    /\ ret.state = "tuple"

----------------------------------------------------------------------------
(* The age-based sweep: FileManager.cleanup_old_temp_files, which calls    *)
(* clean_old_files(TEMP_DIR_BASE, TEMP_DIR_CLEANUP_HOURS).  sw.dirs are    *)
(* the directories that exist, sw.files maps each file to its creation     *)
(* time (in hours), sw.pending are the directories os.walk has yet to      *)
(* visit; os.walk is top-down: a directory is listed, and the loop body    *)
(* run on its listing, before any of its subdirectories is entered.        *)

TEMP_DIR_CLEANUP_HOURS == 24
TEMP_DIR_BASE == <<"temp">>

SweepDirs ==
    { TEMP_DIR_BASE,
      <<"temp", "/", "sid">>,
      <<"temp", "/", "sid", "/", "uploads">>,
      <<"temp", "/", "sid", "/", "converted">>,
      <<"temp", "/", "sid2">> }

SweepFiles ==
    { <<"temp", "/", "sid", "/", "uploads", "/", "a_t1.xls">>,
      <<"temp", "/", "sid", "/", "uploads", "/", "b_t2.xls">>,
      <<"temp", "/", "sid", "/", "converted", "/", "a.csv">>,
      <<"temp", "/", "sid", "/", "files.zip">>,
      <<"temp", "/", "sid2", "/", "files.zip">> }

(* Creation times around the threshold, for a sweep at hour 30: older,     *)
(* exactly at the threshold, newer.                                        *)
SweepClock == 30
Ctimes == {0, SweepClock - TEMP_DIR_CLEANUP_HOURS, 20}

(* What os.listdir / os.walk see of a directory. *)
SubDirs(d, dirs) == {x \in dirs : x # TEMP_DIR_BASE /\ dirname(x) = d}
FilesIn(d, files) == {p \in DOMAIN files : dirname(p) = d}
IsEmptyDir(d, dirs, files) == SubDirs(d, dirs) = {} /\ FilesIn(d, files) = {}

(* Faulty variant of IsOld: a file exactly at the threshold is swept too. *)
IsOld_Inclusive(file_time, cutoff_time) == file_time <= cutoff_time

(* Line 88: file_time < cutoff_time. *)
IsOld(file_time, cutoff_time) == file_time < cutoff_time

SweepInit ==
    /\ \E D \in SUBSET SweepDirs :
         /\ \A d \in D : d = TEMP_DIR_BASE \/ dirname(d) \in D
         /\ \E S \in SUBSET {p \in SweepFiles : dirname(p) \in D} :
              \E ct \in [S -> Ctimes] :
                 sw = [pc |-> "call", directory |-> TEMP_DIR_BASE,
                       hours_old |-> TEMP_DIR_CLEANUP_HOURS, now |-> SweepClock,
                       dirs |-> D, files |-> ct, dirs0 |-> D, files0 |-> ct,
                       pending |-> {}, cutoff_time |-> 0, cleaned_count |-> 0]
    /\ file_info_list = <<>>
    /\ conversion_config = ConversionConfig("csv", "all", <<>>)
    /\ disk = <<>>
    /\ BatchIdle
    /\ rd = NoRead /\ gs = NoCall /\ cv = NoCall /\ vd = NoCall

(* Lines 76-80: nothing to do when the directory is missing; otherwise the *)
(* cutoff time and the start of the walk.                                  *)
SweepBegin ==
    /\ sw.pc = "call"
    /\ IF sw.directory \notin sw.dirs
       THEN sw' = [sw EXCEPT !.pc = "returned"]
       ELSE sw' = [sw EXCEPT !.pc = "walk",
                             !.cutoff_time = sw.now - sw.hours_old,
                             !.pending = {sw.directory}]
    /\ UNCHANGED <<batchVars, rd, gs, cv, vd>>

(* Lines 83-102: the loop body for one directory of the walk: remove its   *)
(* old files, then remove those of its subdirectories that are empty now;  *)
(* the walk will enter the subdirectories afterwards.  A directory that    *)
(* was removed before the walk enters it yields nothing.                   *)
SweepVisit ==
    /\ sw.pc = "walk"
    /\ \E root \in sw.pending :
         IF root \notin sw.dirs
         THEN sw' = [sw EXCEPT !.pending = @ \ {root}]
         ELSE LET dirs == SubDirs(root, sw.dirs)
                  files == FilesIn(root, sw.files)
                  old == {p \in files : IsOld(sw.files[p], sw.cutoff_time)}
                  kept == [p \in DOMAIN sw.files \ old |-> sw.files[p]]
                  empty == {d \in dirs : IsEmptyDir(d, sw.dirs, kept)}
              IN sw' = [sw EXCEPT !.files = kept,
                                  !.cleaned_count = @ + Cardinality(old),
                                  !.dirs = @ \ empty,
                                  !.pending = (@ \ {root}) \cup dirs]
    /\ UNCHANGED <<batchVars, rd, gs, cv, vd>>

(* Line 107: return cleaned_count. *)
SweepReturn ==
    /\ sw.pc = "walk"
    /\ sw.pending = {}
    /\ sw' = [sw EXCEPT !.pc = "returned"]
    /\ UNCHANGED <<batchVars, rd, gs, cv, vd>>

SweepNext == SweepBegin \/ SweepVisit \/ SweepReturn

SpecSweep == SweepInit /\ [][SweepNext]_vars

Threshold == sw.now - TEMP_DIR_CLEANUP_HOURS
OlderFiles == {p \in DOMAIN sw.files0 : sw.files0[p] < Threshold}
UploadsDir == <<"temp", "/", "sid", "/", "uploads">>
UploadA == <<"temp", "/", "sid", "/", "uploads", "/", "a_t1.xls">>
UploadB == <<"temp", "/", "sid", "/", "uploads", "/", "b_t2.xls">>

\* C18: a sweep removes every file under the temp root that was created
\* before the threshold and no other file, and returns their number; a
\* directory holding a file that is not older remains.  (A directory with
\* one older and one newer file keeps the newer file and loses the older.)
C18_SweepRemovesExactlyOlder ==
    sw.pc = "returned" =>
      /\ DOMAIN sw.files = DOMAIN sw.files0 \ OlderFiles
      /\ \A p \in DOMAIN sw.files : sw.files[p] = sw.files0[p]
      /\ sw.cleaned_count = Cardinality(OlderFiles)
      /\ \A p \in DOMAIN sw.files : dirname(p) \in sw.dirs
      /\ sw.dirs \subseteq sw.dirs0

C18_Witness ==
    /\ sw.pc = "returned"
    /\ FilesIn(UploadsDir, sw.files0) = {UploadA, UploadB}
    /\ sw.files0[UploadA] < Threshold
    /\ sw.files0[UploadB] >= Threshold
    /\ DOMAIN sw.files0 = {UploadA, UploadB}
    /\ DOMAIN sw.files = {UploadB}
    /\ UploadsDir \in sw.dirs
    /\ sw.cleaned_count = 1

\* C19: a single sweep prunes every directory that it left empty: when the
\* sweep returns, no directory under the temp root is empty that held
\* something when the sweep began.
C19_SweepPrunesEmptied ==
    sw.pc = "returned" =>
      \A d \in sw.dirs \ {sw.directory} :
         IsEmptyDir(d, sw.dirs, sw.files) => IsEmptyDir(d, sw.dirs0, sw.files0)

----------------------------------------------------------------------------
(* Input validation: FileConverter.validate_input_file.  The path is given *)
(* by whether the file exists, its suffix and, when it exists, the         *)
(* workbook it holds; stat_fails says that os.path.getsize raises (the     *)
(* file went away after the existence check).  A message is a token        *)
(* sequence, the empty string is <<>>.                                     *)

Suffixes == {".xls", ".xlsx", ".XLS", ".xlsm", ".csv", ""}

(* str.lower() on a suffix. *)
Lower(suffix) == IF suffix = ".XLS" THEN ".xls" ELSE suffix

(* str.lstrip('.') on a suffix. *)
LStripDot(suffix) ==
    IF suffix = ".xls" THEN "xls"
    ELSE IF suffix = ".xlsx" THEN "xlsx"
    ELSE IF suffix = ".XLS" THEN "XLS"
    ELSE IF suffix = ".xlsm" THEN "xlsm"
    ELSE IF suffix = ".csv" THEN "csv"
    ELSE ""

(* Line 34. *)
supported_input_formats == {"xls", "xlsx"}

(* _read_excel_with_fallback as a function: every candidate engine raises. *)
ReadRaises(file_ext, book, selector) ==
    \A m \in DOMAIN Engines(file_ext) :
       EngineRaises(Engines(file_ext)[m], book, selector)

(* _read_excel_with_fallback as a function: the table of the first engine  *)
(* that does not raise.                                                    *)
ReadTable(file_ext, book, selector, nrows) ==
    LET engines == Engines(file_ext)
        m == CHOOSE m \in DOMAIN engines :
                /\ ~EngineRaises(engines[m], book, selector)
                /\ \A k \in 1..(m - 1) : EngineRaises(engines[k], book, selector)
    IN EngineTable(engines[m], book, selector, nrows)

(* The engine whose exception is the last one of a read that raises. *)
LastError(file_ext, book, selector) ==
    EngineError(Engines(file_ext)[Len(Engines(file_ext))], book, selector)

(* get_excel_sheets as a function. *)
ListSheets(file_ext, book) ==
    LET engines == SheetEngines(file_ext)
        ok == {m \in DOMAIN engines : ~SheetsRaises(engines[m], book)}
    IN IF ok = {} THEN DefaultSheets
       ELSE SheetNamesOf(engines[CHOOSE m \in ok : \A k \in ok : m <= k], book)

(* Faulty variant of HasColumns: the frame is not looked at. *)
HasColumns_Unchecked(table) == TRUE

(* Line 463: len(test_df.columns) > 0.  A frame has columns when a header  *)
(* row named them or when it holds a row.                                  *)
HasColumns(table) == table.columns # 0 \/ table.rows # <<>>

NoValidation ==
    [valid |-> FALSE, error |-> <<>>, has_file_info |-> FALSE,
     sheets |-> <<>>, warnings |-> <<>>]

ValidateInit ==
    /\ \E exists \in BOOLEAN, stat_fails \in BOOLEAN, suffix \in Suffixes,
          xlrd_ok \in BOOLEAN, openpyxl_ok \in BOOLEAN, n \in 0..MaxSheets :
         \E rowcounts \in [1..n -> 0..(MaxRows - 1)] :
            vd = [pc |-> "call", exists |-> exists, stat_fails |-> stat_fails,
                  suffix |-> suffix,
                  book |-> Book(xlrd_ok, openpyxl_ok, rowcounts),
                  result |-> NoValidation]
    /\ file_info_list = <<>>
    /\ conversion_config = ConversionConfig("csv", "all", <<>>)
    /\ disk = <<>>
    /\ BatchIdle
    /\ rd = NoRead /\ gs = NoCall /\ cv = NoCall /\ sw = NoCall

(* Lines 434-450: the result record, the existence check and the           *)
(* extension check.                                                        *)
VdCheck ==
    /\ vd.pc = "call"
    /\ IF ~vd.exists
       THEN vd' = [vd EXCEPT !.pc = "returned",
                             !.result.error = <<"file_not_found">>]
       ELSE IF LStripDot(Lower(vd.suffix)) \notin supported_input_formats
       THEN vd' = [vd EXCEPT
                     !.pc = "returned",
                     !.result.error = <<"unsupported_format", ": ", ".",
                                        LStripDot(Lower(vd.suffix))>>]
       ELSE vd' = [vd EXCEPT !.pc = "read"]
    /\ UNCHANGED <<batchVars, rd, gs, cv, sw>>

(* Lines 452-503: the file information, the trial read of one row, the     *)
(* sheet names; every exception ends in the error field.                   *)
VdRead ==
    /\ vd.pc = "read"
    /\ LET file_ext == Lower(vd.suffix)
       IN IF vd.stat_fails
          THEN vd' = [vd EXCEPT
                        !.pc = "returned",
                        !.result.error = <<"validation_error", ": ", "stat">>]
          ELSE IF ReadRaises(file_ext, vd.book, NoSelector)
          THEN vd' = [vd EXCEPT
                        !.pc = "returned",
                        !.result.has_file_info = TRUE,
                        !.result.error =
                            <<"validation_failed", ": ",
                              LastError(file_ext, vd.book, NoSelector).cause>>]
          ELSE IF HasColumns(ReadTable(file_ext, vd.book, NoSelector, 1))
          THEN LET sheets == ListSheets(file_ext, vd.book)
               IN vd' = [vd EXCEPT
                           !.pc = "returned",
                           !.result.has_file_info = TRUE,
                           !.result.valid = TRUE,
                           !.result.sheets = sheets,
                           !.result.warnings =
                               IF sheets = <<>> THEN <<"no_valid_sheet">> ELSE <<>>]
          ELSE vd' = [vd EXCEPT
                        !.pc = "returned",
                        !.result.has_file_info = TRUE,
                        !.result.error = <<"empty_or_invalid">>]
    /\ UNCHANGED <<batchVars, rd, gs, cv, sw>>

ValidateNext == VdCheck \/ VdRead

SpecValidate == ValidateInit /\ [][ValidateNext]_vars

(* What the claim calls missing, unsupported, unreadable and empty. *)
VdMissing == ~vd.exists \/ vd.stat_fails
VdUnsupported == vd.suffix \notin {".xls", ".xlsx", ".XLS"}
VdUnreadable ==
    IF vd.suffix = ".xlsx"
    THEN ~vd.book.openpyxl_ok \/ vd.book.sheets = <<>>
    ELSE (~vd.book.xlrd_ok /\ ~vd.book.openpyxl_ok) \/ vd.book.sheets = <<>>
VdEmpty == vd.book.sheets # <<>> /\ vd.book.sheets[1].nrows = 0

\* C20: input validation never raises: it always returns a structured
\* result, with valid = false and a non-empty error when the file is
\* missing, has an unsupported extension, is empty or cannot be read by any
\* engine, and valid = true only together with an empty error.
C20_ValidationNeverRaises ==
    /\ vd.pc \in {"idle", "call", "read", "returned"}
    /\ vd.pc = "returned" =>
          /\ vd.result.valid => vd.result.error = <<>>
          /\ ~vd.result.valid => vd.result.error # <<>>
          /\ (VdMissing \/ VdUnsupported \/ VdUnreadable \/ VdEmpty) =>
                ~vd.result.valid /\ vd.result.error # <<>>

C20_Witness ==
    /\ vd.pc = "returned"
    /\ vd.exists /\ ~vd.stat_fails /\ vd.suffix = ".xls"
    /\ vd.book.xlrd_ok
    /\ VdEmpty
    /\ ~vd.result.valid
    /\ vd.result.error = <<"empty_or_invalid">>

----------------------------------------------------------------------------
(* Properties of the renderers *)

(* The tag names UTF-8, however it is spelled. *)
IsUtf8Tag(encoding) == encoding \in {"utf-8", "UTF-8"}

\* C21: the csv renderer writes with the byte-order-marked UTF-8 variant
\* whenever the requested encoding is the UTF-8 tag, in every spelling the
\* configuration can pass (the offered value "UTF-8" included), and with
\* the requested encoding unchanged otherwise.
C21_Utf8GetsBom ==
    (cv.pc \in {"rendered", "returning", "returned"}
        /\ cv.output_format = "csv" /\ cv.success = "true") =>
      LET requested == ParamEncoding(cv.encoding)
      IN IF IsUtf8Tag(requested)
         THEN cv.written_encoding = "utf-8-sig"
         ELSE cv.written_encoding = requested

----------------------------------------------------------------------------
(* The table of FileConverter.convert_to_pdf.  The frame read from the     *)
(* sheet has n data rows; a row of the rendered table is 0 (the header     *)
(* row), k (the k-th data row) or -1 (the row of ellipsis markers).        *)

MaxPdfRows == 150
max_rows == 100
HeaderRow == 0
EllipsisRow == -1

(* Lines 269-277: the header row, then one row per data row of the frame. *)
PdfData(n) == <<HeaderRow>> \o RangeSeq(1, n)

(* Faulty variant of PdfCap: the header row is not allowed for. *)
PdfCap_NoHeaderSlack(data) ==
    IF Len(data) > max_rows
    THEN Append(SubSeq(data, 1, max_rows + 1), EllipsisRow)
    ELSE data

(* Lines 279-284: keep the header and max_rows data rows, then one row of  *)
(* ellipsis markers.                                                       *)
PdfCap(data) ==
    IF Len(data) > max_rows + 1
    THEN Append(SubSeq(data, 1, Min(Len(data), max_rows + 1)), EllipsisRow)
    ELSE data

PdfInit ==
    /\ \E n \in 0..MaxPdfRows, page_size \in {"A4", "A3", "Letter"},
          orientation \in {"portrait", "landscape"} :
         cv = [pc |-> "pdf_read", n |-> n, page_size |-> page_size,
               orientation |-> orientation, data |-> <<>>, table |-> <<>>]
    /\ file_info_list = <<>>
    /\ conversion_config = ConversionConfig("pdf", "all", <<>>)
    /\ disk = <<>>
    /\ BatchIdle
    /\ rd = NoRead /\ gs = NoCall /\ sw = NoCall /\ vd = NoCall

(* Lines 238-277: read the frame and collect the rows. *)
PdfCollect ==
    /\ cv.pc = "pdf_read"
    /\ cv' = [cv EXCEPT !.pc = "pdf_rows", !.data = PdfData(cv.n)]
    /\ UNCHANGED <<batchVars, rd, gs, sw, vd>>

(* Lines 279-309: cap the rows, build the table and the document. *)
PdfBuild ==
    /\ cv.pc = "pdf_rows"
    /\ cv' = [cv EXCEPT !.pc = "pdf_built", !.table = PdfCap(cv.data)]
    /\ UNCHANGED <<batchVars, rd, gs, sw, vd>>

PdfNext == PdfCollect \/ PdfBuild

SpecPdf == PdfInit /\ [][PdfNext]_vars

\* C22: for a table with n data rows the pdf renderer emits the header row
\* and the n data rows when n <= 100, and the header row, the first 100
\* data rows and exactly one ellipsis row when n > 100.
C22_PdfRowCap ==
    cv.pc = "pdf_built" =>
      IF cv.n <= 100
      THEN /\ Len(cv.table) = cv.n + 1
           /\ cv.table = <<0>> \o RangeSeq(1, cv.n)
      ELSE /\ Len(cv.table) = 102
           /\ cv.table = <<0>> \o RangeSeq(1, 100) \o <<-1>>

C22_Witness ==
    /\ cv.pc = "pdf_built"
    /\ cv.n = 150
    /\ Len(cv.table) = 102
    /\ cv.table[101] = 100
    /\ cv.table[102] = EllipsisRow

----------------------------------------------------------------------------
(* FileConverter.convert_to_xlsx in whole-workbook mode (no sheet name).   *)
(* cv.unwritable are the sheet names DataFrame.to_excel rejects (a name    *)
(* Excel does not allow), cv.dir_ok says whether the output file can be    *)
(* created; cv.writer are the sheets handed to the ExcelWriter and         *)
(* cv.output the sheets of the file that was written.                      *)

NoOutput == <<>>
WrittenSheet(name, table) == [name |-> name, table |-> table]

(* Faulty variant of OnWorkbookError: the exception fails the job. *)
OnWorkbookError_Raise == "xlsx_raised"

(* Lines 339-342: any exception of the whole-workbook attempt leads to the *)
(* conversion of the first sheet only.                                     *)
OnWorkbookError == "xlsx_fallback"

XlsxInit ==
    /\ \E file_ext \in {".xls", ".xlsx"},
          xlrd_ok \in BOOLEAN, openpyxl_ok \in BOOLEAN, dir_ok \in BOOLEAN,
          n \in 0..MaxSheets :
         \E rowcounts \in [1..n -> 0..2],
            unwritable \in SUBSET {<<SheetToks[s]>> : s \in 1..n} :
            cv = [pc |-> "xlsx_call", file_ext |-> file_ext,
                  book |-> Book(xlrd_ok, openpyxl_ok, rowcounts),
                  unwritable |-> unwritable, dir_ok |-> dir_ok,
                  all_sheets |-> <<>>, idx |-> 0, writer |-> <<>>,
                  output |-> NoOutput, fell_back |-> FALSE]
    /\ file_info_list = <<>>
    /\ conversion_config = ConversionConfig("xlsx", "all", <<>>)
    /\ disk = <<>>
    /\ BatchIdle
    /\ rd = NoRead /\ gs = NoCall /\ sw = NoCall /\ vd = NoCall

(* Lines 333-335: enumerate the sheets and open the writer. *)
XlsxEnumerate ==
    /\ cv.pc = "xlsx_call"
    /\ cv' = [cv EXCEPT
                !.all_sheets = ListSheets(cv.file_ext, cv.book),
                !.idx = 1,
                !.pc = IF cv.dir_ok THEN "xlsx_loop" ELSE OnWorkbookError]
    /\ UNCHANGED <<batchVars, rd, gs, sw, vd>>

(* Lines 336-338: read one sheet by name and hand it to the writer. *)
XlsxSheet ==
    /\ cv.pc = "xlsx_loop"
    /\ cv.idx <= Len(cv.all_sheets)
    /\ LET sheet == cv.all_sheets[cv.idx]
       IN IF \/ ReadRaises(cv.file_ext, cv.book, Pinned(sheet))
             \/ sheet \in cv.unwritable
          THEN cv' = [cv EXCEPT !.pc = OnWorkbookError]
          ELSE cv' = [cv EXCEPT
                        !.writer = Append(@, WrittenSheet(sheet,
                                      ReadTable(cv.file_ext, cv.book,
                                                Pinned(sheet), -1))),
                        !.idx = @ + 1]
    /\ UNCHANGED <<batchVars, rd, gs, sw, vd>>

(* Line 335, leaving the with block: the writer saves the workbook; a      *)
(* workbook without a sheet cannot be saved.                               *)
XlsxClose ==
    /\ cv.pc = "xlsx_loop"
    /\ cv.idx > Len(cv.all_sheets)
    /\ IF cv.writer = <<>>
       THEN cv' = [cv EXCEPT !.pc = OnWorkbookError]
       ELSE cv' = [cv EXCEPT !.pc = "xlsx_returned", !.output = cv.writer]
    /\ UNCHANGED <<batchVars, rd, gs, sw, vd>>

(* Lines 339-342 and 346-347: read the first sheet and write it alone; an  *)
(* exception here becomes the ConversionError of the job.                  *)
XlsxFallback ==
    /\ cv.pc = "xlsx_fallback"
    /\ IF ReadRaises(cv.file_ext, cv.book, NoSelector) \/ ~cv.dir_ok
       THEN cv' = [cv EXCEPT !.pc = "xlsx_raised", !.fell_back = TRUE]
       ELSE cv' = [cv EXCEPT
                     !.pc = "xlsx_returned", !.fell_back = TRUE,
                     !.output = << WrittenSheet(<<"Sheet1">>,
                                      ReadTable(cv.file_ext, cv.book,
                                                NoSelector, -1)) >>]
    /\ UNCHANGED <<batchVars, rd, gs, sw, vd>>

XlsxNext == XlsxEnumerate \/ XlsxSheet \/ XlsxClose \/ XlsxFallback

SpecXlsx == XlsxInit /\ [][XlsxNext]_vars

Enumerated == ListSheets(cv.file_ext, cv.book)
WorkbookFine ==
    /\ cv.dir_ok
    /\ Enumerated # <<>>
    /\ \A k \in DOMAIN Enumerated :
          /\ ~ReadRaises(cv.file_ext, cv.book, Pinned(Enumerated[k]))
          /\ Enumerated[k] \notin cv.unwritable
FirstSheetFine == cv.dir_ok /\ ~ReadRaises(cv.file_ext, cv.book, NoSelector)

\* C23: in whole-workbook mode the xlsx renderer writes every enumerated
\* sheet under its own name; when the enumeration or a read or write of a
\* sheet fails, the job still succeeds with a single-sheet output holding
\* the first sheet, and it fails only when that fallback fails too.
C23_WholeWorkbookFallback ==
    /\ cv.pc = "xlsx_returned" /\ WorkbookFine =>
          /\ Len(cv.output) = Len(Enumerated)
          /\ \A k \in DOMAIN cv.output :
                /\ cv.output[k].name = Enumerated[k]
                /\ cv.output[k].table.sheet = Enumerated[k]
    /\ cv.pc = "xlsx_returned" /\ ~WorkbookFine =>
          /\ Len(cv.output) = 1
          /\ cv.output[1].table.sheet = cv.book.sheets[1].name
    /\ cv.pc = "xlsx_raised" => ~WorkbookFine /\ ~FirstSheetFine
    /\ cv.pc \in {"xlsx_returned", "xlsx_raised"} =>
          (cv.pc = "xlsx_raised" <=> ~WorkbookFine /\ ~FirstSheetFine)

C23_Witness ==
    /\ cv.pc = "xlsx_returned"
    /\ Len(cv.all_sheets) = 2
    /\ Len(cv.writer) = 1
    /\ cv.all_sheets[2] \in cv.unwritable
    /\ cv.fell_back
    /\ Len(cv.output) = 1

----------------------------------------------------------------------------
(* The ProgressTracker under any sequence of calls of a client: any index  *)
(* (in range or not), any order, repeats included.  Every call reads the   *)
(* clock, which ticks between calls; trace holds the call just applied.    *)

MaxCalls == 4

Call(op, file_index, arg) == [op |-> op, idx |-> file_index, arg |-> arg]
ProgressValues == {-5, 5, 15}
FailText == <<"boom">>

(* Faulty variant of CompleteCall: a failure is counted as a completion. *)
CompleteCall_CountsAsDone(t, file_index, success, time) ==
    complete_file(t, file_index, TRUE, <<>>, time)

(* complete_file(file_index, success, error_message) as a client calls it. *)
CompleteCall(t, file_index, success, time) ==
    complete_file(t, file_index, success,
                  IF success THEN <<>> ELSE FailText, time)

(* Lines 153-159: get_overall_progress, as the sum of the per-file values  *)
(* and the number of files it is divided by.                               *)
RECURSIVE SumProgress(_)
SumProgress(fps) ==
    IF fps = <<>> THEN 0
    ELSE fps[Len(fps)].progress + SumProgress(SubSeq(fps, 1, Len(fps) - 1))

TrackerInit ==
    /\ \E n \in 1..MaxFiles :
         \E names \in [1..n -> {<<"a", ".", "xls">>}], size0 \in {0, 1} :
            /\ file_info_list =
                  [k \in 1..n |->
                     [FileInfo(names[k], k, 1) EXCEPT !.size = size0 * k]]
            /\ progress_tracker =
                  start_processing(
                      initialize_files(ProgressTracker(n), file_info_list), 0)
    /\ conversion_config = ConversionConfig("csv", "all", <<>>)
    /\ disk = <<>>
    /\ file_configs = <<>>
    /\ pc = "tracker"
    /\ i = 0
    /\ results = NoResults
    /\ zip = NoZip
    /\ ret = NoReturn
    /\ trace = <<>>
    /\ now = 0
    /\ session = NoSession
    /\ rd = NoRead
    /\ CallsIdle

Indices == 0..(Len(progress_tracker.file_progress) + 1)

TrackerFrame ==
    UNCHANGED <<file_info_list, conversion_config, file_configs, pc, i,
                results, disk, zip, ret, session, calls>>

(* A client calls start_file(file_index). *)
TrStart ==
    /\ pc = "tracker" /\ now < MaxCalls
    /\ \E file_index \in Indices :
         /\ progress_tracker' = start_file(progress_tracker, file_index, now + 1)
         /\ trace' = <<Call("start_file", file_index, 0)>>
    /\ now' = now + 1
    /\ TrackerFrame

(* A client calls update_file_progress(file_index, progress). *)
TrUpdate ==
    /\ pc = "tracker" /\ now < MaxCalls
    /\ \E file_index \in Indices, progress \in ProgressValues :
         /\ progress_tracker' =
               update_file_progress(progress_tracker, file_index, progress)
         /\ trace' = <<Call("update_file_progress", file_index, progress)>>
    /\ now' = now + 1
    /\ TrackerFrame

(* A client calls complete_file(file_index, success, error_message). *)
TrComplete ==
    /\ pc = "tracker" /\ now < MaxCalls
    /\ \E file_index \in Indices, success \in BOOLEAN :
         /\ progress_tracker' =
               CompleteCall(progress_tracker, file_index, success, now + 1)
         /\ trace' = <<Call("complete_file", file_index,
                            IF success THEN 1 ELSE 0)>>
    /\ now' = now + 1
    /\ TrackerFrame

TrackerNext == TrStart \/ TrUpdate \/ TrComplete

SpecTracker == TrackerInit /\ [][TrackerNext]_vars

InRange(k) == 1 <= k /\ k <= Len(Records)
Completing(success) ==
    /\ trace' # <<>>
    /\ trace'[1].op = "complete_file"
    /\ trace'[1].arg = (IF success THEN 1 ELSE 0)
    /\ InRange(trace'[1].idx)

C24_Failed ==
    Completing(FALSE) =>
      LET k == trace'[1].idx
          after == progress_tracker'.file_progress[k]
      IN /\ progress_tracker'.failed_files = progress_tracker.failed_files + 1
         /\ after.status = "failed"
         /\ after.error_message = FailText
         /\ after.end_time = now'
         /\ progress_tracker'.completed_files = progress_tracker.completed_files
         /\ progress_tracker'.processed_size = progress_tracker.processed_size
         /\ progress_tracker'.processing_speeds =
               progress_tracker.processing_speeds

C24_Done ==
    Completing(TRUE) =>
      LET k == trace'[1].idx
          after == progress_tracker'.file_progress[k]
      IN /\ progress_tracker'.completed_files =
               progress_tracker.completed_files + 1
         /\ progress_tracker'.processed_size =
               progress_tracker.processed_size + Records[k].file_size
         /\ after.status = "done"
         /\ after.progress = 10
         /\ after.end_time = now'
         /\ progress_tracker'.failed_files = progress_tracker.failed_files

\* C24: finishing a tracked job as failed adds exactly one to the failed
\* counter, stores the error message and sets the status failed, and leaves
\* the completed counter, the processed size and the throughput samples
\* unchanged; finishing it as done adds one to the completed counter and
\* the job's declared size to the processed size, sets the progress to 1.0
\* and leaves the failed counter unchanged.
C24_CompleteFileFrame == [][C24_Failed /\ C24_Done]_vars

C24_Witness ==
    /\ pc = "tracker"
    /\ trace = <<Call("complete_file", 2, 0)>>
    /\ progress_tracker.failed_files = 1
    /\ progress_tracker.completed_files = 1
    /\ progress_tracker.processed_size = 1
    /\ Len(progress_tracker.processing_speeds) = 1
    /\ Records[2].status = "failed"
    /\ Records[1].status = "done"

C28_Ranges ==
    /\ \A k \in DOMAIN Records :
          0 <= Records[k].progress /\ Records[k].progress <= 10
    /\ 0 <= SumProgress(Records)
    /\ SumProgress(Records) <= 10 * Len(Records)
    /\ progress_tracker.completed_files + progress_tracker.failed_files
          <= Len(Records)
    /\ progress_tracker.processed_size <= progress_tracker.total_size

C28_OutOfRange ==
    (trace' # <<>> /\ ~InRange(trace'[1].idx) /\ now' # now) =>
        progress_tracker' = progress_tracker

\* C28: after any sequence of start_file, update_file_progress and
\* complete_file calls (any indices, any order, repeats allowed) every
\* per-file progress and the aggregate progress are within [0,1],
\* completed_files + failed_files is at most the number of tracked files and
\* processed_size is at most total_size; a call with an index out of range
\* changes nothing.
C28_TrackerInvariants == [](pc = "tracker" => C28_Ranges) /\ [][C28_OutOfRange]_vars

----------------------------------------------------------------------------
(* Output paths of the expanded jobs                                       *)

DistinctNames ==
    \A j, k \in Files :
        j # k => file_info_list[j].name # file_info_list[k].name

\* C25: for every set of uploaded file names and sheet names, distinct jobs
\* of a batch get distinct output paths, each directly inside the batch's
\* output directory.
C25_DistinctOutputPaths ==
    (Expanded /\ DistinctNames) =>
        /\ \A j \in Jobs : dirname(file_configs[j].output_path) = OutputDir
        /\ \A j, k \in Jobs :
              j # k => file_configs[j].output_path # file_configs[k].output_path

----------------------------------------------------------------------------
(* The tracker's counters against the batch result                         *)

\* C26: at the end of every batch the tracker's completed_files equals the
\* number of successful jobs of the result and its failed_files the number
\* of failed jobs, so that completed_files + failed_files = total_files.
C26_CountersMatchResult ==
    BatchRan =>
        /\ progress_tracker.completed_files = results.success
        /\ progress_tracker.failed_files = results.failed
        /\ progress_tracker.completed_files + progress_tracker.failed_files
              = progress_tracker.total_files

----------------------------------------------------------------------------
(* Termination of the batch.  The batch is one sequential call on the      *)
(* script's thread: once started, each of its steps is taken as soon as it *)
(* is enabled, which is weak fairness of the next-step relation.           *)

SpecLive == Init /\ [][Next]_vars /\ WF_vars(Next)

(* ProgressTracker.get_overall_progress, in whole per cent (rounded down): *)
(* 0.0 without records, else the mean of the records' progress.            *)
get_overall_progress(t) ==
    IF t.file_progress = <<>> THEN 0
    ELSE (SumProgress(t.file_progress) * 10) \div Len(t.file_progress)

Unfinished == {k \in DOMAIN Records : Records[k].status \in {"pending", "active"}}

BatchComplete ==
    /\ pc = "done"
    /\ file_configs # <<>> =>
          /\ get_overall_progress(progress_tracker) = 100
          /\ Unfinished = {}

----------------------------------------------------------------------------
(* Several batches in one session (ui/main_interface.py lines 155-214).    *)
(* The FileManager, and with it temp/<session>/converted, lives as long as *)
(* the session; st.session_state keeps zip_path and output_dir between the *)
(* runs of the script.  The archive itself is written to temp/<session>,   *)
(* outside the output directory.                                           *)

MaxBatches == 2

(* FileManager.list_converted_files: the files directly inside output_dir. *)
list_converted_files(output_dir, disk_) ==
    {p \in DOMAIN disk_ : dirname(p) = output_dir}

SessionConfigs ==
    {ConversionConfig(output_format, mode, <<>>) :
        output_format \in {"csv", "xlsx"}, mode \in {"all", "first"}}

SessionFiles ==
    UNION {{[k \in 1..n |-> FileInfo(names[k], k, 1)] :
               names \in [1..n -> NamePool]} : n \in 1..MaxFiles}

SessionInit ==
    /\ file_info_list \in SessionFiles
    /\ \E q \in {"ok", "noout"} :
          disk = [p \in {file_info_list[k].path : k \in DOMAIN file_info_list}
                    |-> Upload(q)]
    /\ conversion_config \in SessionConfigs
    /\ BatchIdle
    /\ rd = NoRead
    /\ CallsIdle

(* main_interface.py lines 187-197 and 209-214, download_section.py lines  *)
(* 482-541: a truthy result replaces the stored zip_path and output_dir,   *)
(* then the download area lists the output directory if a zip_path is      *)
(* stored.                                                                 *)
ShowResult ==
    /\ pc = "done"
    /\ LET stored == IF ret.state = "tuple"
                     THEN [session EXCEPT !.zip_path = ret.zip_path,
                                          !.output_dir = ret.output_dir]
                     ELSE session
       IN session' =
             [stored EXCEPT !.offered =
                 IF stored.zip_path # <<>> /\ stored.output_dir # <<>>
                 THEN list_converted_files(stored.output_dir, disk)
                 ELSE {}]
    /\ pc' = "shown"
    /\ UNCHANGED <<file_info_list, conversion_config, file_configs, i, results,
                   progress_tracker, disk, zip, ret, trace, now, calls>>

(* main_interface.py lines 156-169: another set of uploads replaces the    *)
(* stored one and clears zip_path and output_dir.                          *)
ChangeFiles ==
    /\ pc = "shown"
    /\ session.batches < MaxBatches
    /\ \E fl \in SessionFiles :
          /\ [k \in DOMAIN fl |-> fl[k].name] #
                [k \in DOMAIN file_info_list |-> file_info_list[k].name]
          /\ file_info_list' = fl
          /\ disk' = [p \in {fl[k].path : k \in DOMAIN fl} |-> Upload("ok")]
                        @@ disk
    /\ session' = [session EXCEPT !.zip_path = <<>>, !.output_dir = <<>>,
                                  !.offered = {}]
    /\ pc' = "changed"
    /\ UNCHANGED <<conversion_config, file_configs, i, results,
                   progress_tracker, zip, ret, trace, now, calls>>

(* download_section.py lines 260-262: the button starts the next batch on  *)
(* the stored uploads with the configuration of the moment.                *)
NewBatch ==
    /\ pc \in {"shown", "changed"}
    /\ session.batches < MaxBatches
    /\ conversion_config' \in SessionConfigs
    /\ session' = [session EXCEPT !.batches = @ + 1]
    /\ file_configs' = <<>>
    /\ pc' = "start"
    /\ i' = 0
    /\ results' = NoResults
    /\ progress_tracker' = ProgressTracker(0)
    /\ zip' = NoZip
    /\ ret' = NoReturn
    /\ trace' = <<>>
    /\ UNCHANGED <<file_info_list, disk, now, calls>>

SessionNext ==
    Begin \/ StartFile \/ ConvertFile \/ Finish \/ ShowResult \/ ChangeFiles
          \/ NewBatch

SpecSession == SessionInit /\ [][SessionNext]_vars

SuccessfulOutputs == {results.output_files[k] : k \in DOMAIN results.output_files}

\* C27: after any sequence of batches run in one session, the files offered
\* for individual download from the output directory are exactly the
\* successful outputs of the most recent batch (the files its archive
\* holds).
C27_OfferedAreLatestOutputs ==
    (pc = "shown" /\ ret.state = "tuple") => session.offered = SuccessfulOutputs

----------------------------------------------------------------------------
(* Storing the uploads: FileManager.save_uploaded_file, called once per    *)
(* uploaded file by UploadSection.render_upload_area.  now is the wall     *)
(* clock in whole seconds; trace lists the stored uploads in call order.   *)

MaxUploads == 3
MaxSeconds == 2

IllegalChars == {"<", ">", ":", "\"", "/", "\\", "|", "?", "*"}

RECURSIVE LStrip(_)
LStrip(s) ==
    IF s # <<>> /\ s[1] \in {" ", "."} THEN LStrip(Tail(s)) ELSE s

RECURSIVE RStrip(_)
RStrip(s) ==
    IF s # <<>> /\ s[Len(s)] \in {" ", "."}
    THEN RStrip(SubSeq(s, 1, Len(s) - 1)) ELSE s

(* utils.sanitize_filename: every illegal character becomes "_", then      *)
(* spaces and dots are stripped from both ends.                            *)
sanitize_filename(filename) ==
    RStrip(LStrip([k \in DOMAIN filename |->
                      IF filename[k] \in IllegalChars THEN "_" ELSE filename[k]]))

(* utils.get_timestamp: the clock formatted to the second. *)
get_timestamp(second) == TsToks[second + 1]

save_uploaded_file(name, second) ==
    UploadPath(sanitize_filename(name), get_timestamp(second))

DeclaredNames ==
    { <<"a", ".", "xls">>, <<"b", ".", "xls">>, <<"a", ":", "b", ".", "xls">>,
      <<"a", "_", "b", ".", "xls">>, <<" ", "a", ".", "xls">> }

Stored(id) == [Upload("ok") EXCEPT !.job = id]

UploadInit ==
    /\ file_info_list = <<>>
    /\ conversion_config = ConversionConfig("csv", "all", <<>>)
    /\ disk = <<>>
    /\ file_configs = <<>>
    /\ pc = "upload"
    /\ i = 0
    /\ results = NoResults
    /\ progress_tracker = ProgressTracker(0)
    /\ zip = NoZip
    /\ ret = NoReturn
    /\ trace = <<>>
    /\ now = 0
    /\ session = NoSession
    /\ rd = NoRead
    /\ CallsIdle

(* file_handler.py lines 61-80: one upload is written under its stored     *)
(* name, replacing whatever that path held.                                *)
SaveUpload ==
    /\ pc = "upload"
    /\ Len(trace) < MaxUploads
    /\ \E name \in DeclaredNames :
          LET id == Len(trace) + 1
              file_path == save_uploaded_file(name, now)
          IN /\ disk' = (file_path :> Stored(id)) @@
                           [p \in DOMAIN disk \ {file_path} |-> disk[p]]
             /\ trace' = Append(trace, [name |-> name, path |-> file_path,
                                        second |-> now])
    /\ UNCHANGED <<file_info_list, conversion_config, file_configs, pc, i,
                   results, progress_tracker, zip, ret, now, session, calls>>

(* The wall clock passes to the next second between two calls. *)
Tick ==
    /\ pc = "upload"
    /\ now < MaxSeconds
    /\ now' = now + 1
    /\ UNCHANGED <<file_info_list, conversion_config, file_configs, pc, i,
                   results, progress_tracker, disk, zip, ret, trace, session,
                   calls>>

UploadNext == SaveUpload \/ Tick

SpecUpload == UploadInit /\ [][UploadNext]_vars

\* C30: within one session any two save_uploaded_file calls for different
\* uploads return different stored paths, whatever the declared names and
\* the times of the calls, so that no stored upload is overwritten by
\* another one.
C30_StoredPathsDistinct ==
    pc = "upload" =>
        /\ \A j, k \in DOMAIN trace : j # k => trace[j].path # trace[k].path
        /\ \A j \in DOMAIN trace :
              /\ trace[j].path \in DOMAIN disk
              /\ disk[trace[j].path] = Stored(j)

====
